---- MODULE Spec2Model ----
(***************************************************************************)
(* Model of the ctrlk search core: SearchEngine (search-engine.ts),        *)
(* SearchManager (search-manager.ts), RxSearchManager (search-api.ts) and  *)
(* the useSearch hook (useSearch.ts).                                      *)
(*                                                                         *)
(* Strings are sequences of one-character strings, so that trim,           *)
(* toLowerCase, includes, startsWith, split and URL parsing are computed.  *)
(* Times are counted in hours (one day = DAY units).                       *)
(***************************************************************************)
EXTENDS Integers, Sequences, FiniteSets, TLC

(***************************************************************************)
(* String primitives (JavaScript String.prototype)                         *)
(***************************************************************************)

\* String.prototype.toLowerCase on one character
LowerChar(c) ==
  CASE c = "A" -> "a"
    [] c = "B" -> "b"
    [] c = "G" -> "g"
    [] c = "H" -> "h"
    [] c = "U" -> "u"
    [] OTHER -> c

toLowerCase(s) == [i \in 1..Len(s) |-> LowerChar(s[i])]

IsSpace(c) == c = " "

RECURSIVE TrimStart(_)
TrimStart(s) ==
  IF s = <<>> THEN <<>>
  ELSE IF IsSpace(Head(s)) THEN TrimStart(Tail(s)) ELSE s

RECURSIVE TrimEnd(_)
TrimEnd(s) ==
  IF s = <<>> THEN <<>>
  ELSE IF IsSpace(s[Len(s)]) THEN TrimEnd(SubSeq(s, 1, Len(s) - 1)) ELSE s

\* String.prototype.trim
trim(s) == TrimEnd(TrimStart(s))

\* String.prototype.startsWith
startsWith(s, p) == Len(p) <= Len(s) /\ SubSeq(s, 1, Len(p)) = p

\* String.prototype.includes
includes(s, p) ==
  \E i \in 0..(Len(s) - Len(p)) : SubSeq(s, i + 1, i + Len(p)) = p

\* index (0-based) of the first occurrence of p in s, -1 when absent
indexOf(s, p) ==
  IF includes(s, p)
  THEN CHOOSE i \in 0..(Len(s) - Len(p)) :
         /\ SubSeq(s, i + 1, i + Len(p)) = p
         /\ \A j \in 0..(i - 1) : SubSeq(s, j + 1, j + Len(p)) # p
  ELSE -1

\* String.prototype.replace(p, r) with a string pattern: first occurrence only
replaceFirst(s, p, r) ==
  LET i == indexOf(s, p) IN
  IF i < 0 THEN s
  ELSE SubSeq(s, 1, i) \o r \o SubSeq(s, i + Len(p) + 1, Len(s))

\* String.prototype.replace(/[/\-_]/g, ' ')
ReplaceSeparators(s) ==
  [i \in 1..Len(s) |-> IF s[i] \in {"/", "-", "_"} THEN " " ELSE s[i]]

\* String.prototype.split(/\s+/): runs of whitespace separate the pieces; a
\* leading or trailing run leaves an empty piece, as in JavaScript.
WordStarts(s) ==
  {i \in 1..Len(s) : ~IsSpace(s[i]) /\ (i = 1 \/ IsSpace(s[i - 1]))}

\* the word that starts at position i
WordAt(s, i) ==
  LET last == CHOOSE j \in i..Len(s) :
                /\ (j = Len(s) \/ IsSpace(s[j + 1]))
                /\ \A k \in i..j : ~IsSpace(s[k])
  IN SubSeq(s, i, last)

splitWhitespace(s) ==
  LET starts == WordStarts(s)
      StartOf(k) == CHOOSE i \in starts : Cardinality({j \in starts : j < i}) = k - 1
      words == [k \in 1..Cardinality(starts) |-> WordAt(s, StartOf(k))]
      empty == << <<>> >>
  IN IF s = <<>> THEN empty
     ELSE (IF IsSpace(s[1]) THEN empty ELSE <<>>)
          \o words
          \o (IF IsSpace(s[Len(s)]) THEN empty ELSE <<>>)

\* String.prototype.split('.')
RECURSIVE SplitDot(_, _)
SplitDot(s, cur) ==
  IF s = <<>> THEN <<cur>>
  ELSE IF Head(s) = "." THEN <<cur>> \o SplitDot(Tail(s), <<>>)
       ELSE SplitDot(Tail(s), Append(cur, Head(s)))

splitDots(s) == SplitDot(s, <<>>)

\* decimal digits of a natural number (template-literal formatting of a number)
DigitChar(d) ==
  CASE d = 0 -> "0" [] d = 1 -> "1" [] d = 2 -> "2" [] d = 3 -> "3"
    [] d = 4 -> "4" [] d = 5 -> "5" [] d = 6 -> "6" [] d = 7 -> "7"
    [] d = 8 -> "8" [] OTHER -> "9"

RECURSIVE Digits(_)
Digits(n) ==
  IF n < 10 THEN <<DigitChar(n)>>
  ELSE Digits(n \div 10) \o <<DigitChar(n % 10)>>

Min(a, b) == IF a < b THEN a ELSE b
Max(a, b) == IF a > b THEN a ELSE b
Abs(a) == IF a < 0 THEN 0 - a ELSE a

\* Array.prototype.slice(0, n)
Take(s, n) == SubSeq(s, 1, Min(n, Len(s)))

Range(s) == {s[i] : i \in 1..Len(s)}

(***************************************************************************)
(* URL parsing (WHATWG URL as used by `new URL(url)`), for the inputs of   *)
(* this model: an https URL parses, a string without a scheme throws.      *)
(***************************************************************************)

HTTPS == <<"h", "t", "t", "p", "s", ":", "/", "/">>

RECURSIVE TakeUntilSlash(_)
TakeUntilSlash(s) ==
  IF s = <<>> \/ Head(s) = "/" THEN <<>>
  ELSE <<Head(s)>> \o TakeUntilSlash(Tail(s))

\* new URL(url): [ok, hostname, pathname]; ok = FALSE stands for the TypeError
ParseURL(url) ==
  IF ~startsWith(url, HTTPS) THEN [ok |-> FALSE, hostname |-> <<>>, pathname |-> <<>>]
  ELSE LET rest == SubSeq(url, Len(HTTPS) + 1, Len(url))
           host == TakeUntilSlash(rest)
           path == SubSeq(rest, Len(host) + 1, Len(rest))
       IN IF host = <<>> \/ \E i \in 1..Len(host) : IsSpace(host[i])
          THEN [ok |-> FALSE, hostname |-> <<>>, pathname |-> <<>>]
          ELSE [ok |-> TRUE,
                hostname |-> toLowerCase(host),
                pathname |-> IF path = <<>> THEN <<"/">> ELSE path]

\* join labels with '.'
RECURSIVE JoinDots(_)
JoinDots(parts) ==
  IF Len(parts) = 0 THEN <<>>
  ELSE IF Len(parts) = 1 THEN parts[1]
       ELSE parts[1] \o <<".">> \o JoinDots(Tail(parts))

commonSecondLevelDomains ==
  { <<"c", "o">>, <<"c", "o", "m">>, <<"o", "r", "g">>, <<"n", "e", "t">>,
    <<"g", "o", "v">>, <<"e", "d", "u">>, <<"a", "c">> }

\* an extractMainDomain without the rule for second-level suffixes
extractMainDomainTwoLabels(url) ==
  LET u == ParseURL(url) IN
  IF ~u.ok THEN url
  ELSE LET hostname == toLowerCase(u.hostname)
           parts == splitDots(hostname)
           n == Len(parts)
       IN IF n >= 2 THEN JoinDots(<<parts[n - 1], parts[n]>>) ELSE hostname

\* SearchEngine.extractMainDomain
extractMainDomain(url) ==
  LET u == ParseURL(url) IN
  IF ~u.ok THEN url
  ELSE LET hostname == toLowerCase(u.hostname)
           parts == splitDots(hostname)
           n == Len(parts)
       IN IF n >= 2
          THEN IF n >= 3 /\ parts[n - 1] \in commonSecondLevelDomains
               THEN JoinDots(<<parts[n - 2], parts[n - 1], parts[n]>>)
               ELSE JoinDots(<<parts[n - 1], parts[n]>>)
          ELSE hostname

WWW == <<"w", "w", "w", ".">>

\* SearchEngine.createSearchText
createSearchText(title, url) ==
  LET u == ParseURL(url) IN
  IF u.ok
  THEN LET domain == replaceFirst(u.hostname, WWW, <<>>)
           path == ReplaceSeparators(u.pathname)
       IN trim(toLowerCase(title \o <<" ">> \o domain \o <<" ">> \o path))
  ELSE trim(toLowerCase(title \o <<" ">> \o url))

(***************************************************************************)
(* Array.prototype.sort.  A comparator is given as a function lt on pairs  *)
(* of positions: lt[<<i, j>>] iff it puts element i strictly before j.     *)
(***************************************************************************)

RECURSIVE InsertIdx(_, _, _)
InsertIdx(x, sorted, lt) ==
  IF sorted = <<>> THEN <<x>>
  ELSE IF lt[<<x, Head(sorted)>>] THEN <<x>> \o sorted
       ELSE <<Head(sorted)>> \o InsertIdx(x, Tail(sorted), lt)

\* positions 1..k in sorted order; equal elements keep their order (stable)
RECURSIVE SortIdx(_, _)
SortIdx(k, lt) ==
  IF k = 0 THEN <<>> ELSE InsertIdx(k, SortIdx(k - 1, lt), lt)

Permute(list, idx) == [i \in 1..Len(list) |-> list[idx[i]]]

\* the comparator is a consistent comparator in the sense of ECMAScript:
\* "before" is transitive and so is "neither before nor after"
ConsistentComparator(n, lt) ==
  LET eq(i, j) == ~lt[<<i, j>>] /\ ~lt[<<j, i>>] IN
  \A i, j, k \in 1..n :
    /\ (lt[<<i, j>>] /\ lt[<<j, k>>]) => lt[<<i, k>>]
    /\ (eq(i, j) /\ eq(j, k)) => eq(i, k)

\* every order Array.prototype.sort may leave the list in: the stable sorted
\* order for a consistent comparator, an implementation-defined order (any
\* permutation) otherwise
SortOutcomes(list, lt) ==
  LET n == Len(list) IN
  IF ConsistentComparator(n, lt)
  THEN { Permute(list, SortIdx(n, lt)) }
  ELSE { Permute(list, p) : p \in Permutations(1..n) }

\* list.sort((a, b) => (b.score || 0) - (a.score || 0))
SortByScoreDesc(list) ==
  LET lt == [pr \in (1..Len(list)) \X (1..Len(list)) |->
               list[pr[1]].score > list[pr[2]].score]
  IN Permute(list, SortIdx(Len(list), lt))

(***************************************************************************)
(* Program constants                                                       *)
(***************************************************************************)

MIN_QUERY_LENGTH == 2
HISTORY_MAX_PER_DOMAIN == 2
BOOKMARK_MAX_PER_DOMAIN == 3
MAX_PER_DOMAIN == 3
FETCH_FACTOR == 2
TIE_BAND == 10
DEFAULT_LIMIT == 50
MAX_SUGGESTIONS == 5
DAY == 24

Untitled == <<"U", "n", "t", "i", "t", "l", "e", "d">>

(***************************************************************************)
(* Index documents: the three source readers and SearchEngine.buildIndex   *)
(***************************************************************************)

\* title || 'Untitled'
OrUntitled(title) == IF title = <<>> THEN Untitled ELSE title

\* SearchEngine.getBookmarks: the flattened tree; only nodes with a url count
RECURSIVE getBookmarks(_)
getBookmarks(nodes) ==
  IF nodes = <<>> THEN <<>>
  ELSE LET node == Head(nodes) IN
       (IF node.url # <<>>
        THEN << [id |-> Digits(node.id), title |-> OrUntitled(node.title),
                 url |-> node.url] >>
        ELSE <<>>) \o getBookmarks(Tail(nodes))

\* SearchEngine.getTabs: tabs with a url
RECURSIVE getTabs(_)
getTabs(tabs) ==
  IF tabs = <<>> THEN <<>>
  ELSE LET tab == Head(tabs) IN
       (IF tab.url # <<>>
        THEN << [id |-> Digits(tab.id), title |-> OrUntitled(tab.title),
                 url |-> tab.url] >>
        ELSE <<>>) \o getTabs(Tail(tabs))

\* SearchEngine.deduplicateHistoryByDomain
RECURSIVE DedupHistory(_, _, _)
DedupHistory(historyData, maxPerDomain, kept) ==
  IF historyData = <<>> THEN kept
  ELSE LET item == Head(historyData)
           domain == extractMainDomain(item.url)
           currentCount ==
             Cardinality({i \in 1..Len(kept) : extractMainDomain(kept[i].url) = domain})
       IN DedupHistory(Tail(historyData), maxPerDomain,
                       IF currentCount < maxPerDomain THEN Append(kept, item) ELSE kept)

deduplicateHistoryByDomain(historyData, maxPerDomain) ==
  DedupHistory(historyData, maxPerDomain, <<>>)

\* a map that builds the id of a history item from the item's own id alone
RECURSIVE MapHistoryByItemId(_, _)
MapHistoryByItemId(items, index) ==
  IF items = <<>> THEN <<>>
  ELSE LET item == Head(items) IN
       << [id |-> Digits(item.id),
           title |-> OrUntitled(item.title),
           url |-> item.url,
           lastVisitTime |-> item.lastVisitTime,
           visitCount |-> item.visitCount] >>
       \o MapHistoryByItemId(Tail(items), index + 1)

\* historyItems.filter(item => item.url && item.title).map((item, index) => ...)
RECURSIVE MapHistory(_, _)
MapHistory(items, index) ==
  IF items = <<>> THEN <<>>
  ELSE LET item == Head(items) IN
       << [id |-> Digits(index) \o <<"-">> \o Digits(item.id),
           title |-> OrUntitled(item.title),
           url |-> item.url,
           lastVisitTime |-> item.lastVisitTime,
           visitCount |-> item.visitCount] >> \o MapHistory(Tail(items), index + 1)

HasUrlAndTitle(item) == item.url # <<>> /\ item.title # <<>>

\* a getHistory that caps the items in the order chrome.history answered them
getHistoryUnsorted(historyItems) ==
  deduplicateHistoryByDomain(MapHistory(SelectSeq(historyItems, HasUrlAndTitle), 0),
                             MAX_PER_DOMAIN)

\* SearchEngine.getHistory: filter, number, sort by lastVisitTime descending,
\* keep at most MAX_PER_DOMAIN per domain
getHistory(historyItems) ==
  LET mapped == MapHistory(SelectSeq(historyItems, HasUrlAndTitle), 0)
      lt == [pr \in (1..Len(mapped)) \X (1..Len(mapped)) |->
               mapped[pr[1]].lastVisitTime > mapped[pr[2]].lastVisitTime]
      sorted == Permute(mapped, SortIdx(Len(mapped), lt))
  IN deduplicateHistoryByDomain(sorted, MAX_PER_DOMAIN)

BookmarkDoc(bookmark) ==
  [id |-> <<"b", "o", "o", "k", "m", "a", "r", "k", "-">> \o bookmark.id,
   title |-> bookmark.title,
   url |-> bookmark.url,
   type |-> "bookmark",
   searchText |-> createSearchText(bookmark.title, bookmark.url),
   lastVisitTime |-> 0,
   visitCount |-> 0]

TabDoc(tab) ==
  [id |-> <<"t", "a", "b", "-">> \o tab.id,
   title |-> OrUntitled(tab.title),
   url |-> tab.url,
   type |-> "tab",
   searchText |-> createSearchText(OrUntitled(tab.title), tab.url),
   lastVisitTime |-> 0,
   visitCount |-> 0]

HistoryDoc(historyItem) ==
  [id |-> <<"h", "i", "s", "t", "o", "r", "y", "-">> \o historyItem.id,
   title |-> OrUntitled(historyItem.title),
   url |-> historyItem.url,
   type |-> "history",
   searchText |-> createSearchText(OrUntitled(historyItem.title), historyItem.url),
   lastVisitTime |-> historyItem.lastVisitTime,
   visitCount |-> historyItem.visitCount]

MapDocs(list, Doc(_)) == [i \in 1..Len(list) |-> Doc(list[i])]

\* the document list SearchEngine.buildIndex assembles from the three snapshots
\* (lastVisitTime and visitCount 0 stand for "absent" on bookmarks and tabs)
BuildDocuments(bookmarkNodes, tabs, historyItems) ==
  MapDocs(getBookmarks(bookmarkNodes), BookmarkDoc)
    \o MapDocs(getTabs(tabs), TabDoc)
    \o MapDocs(getHistory(historyItems), HistoryDoc)

\* an index compiled right after `this.documents = []`, before the list is filled
initializeFuseOnCleared(docs) == <<>>

\* SearchEngine.initializeFuse: new Fuse(this.documents, ...); the compiled
\* structure is represented by the list of documents it was built from
initializeFuse(docs) == docs

(***************************************************************************)
(* Fuse.js as configured by SEARCH_CONFIG.FUSE_OPTIONS (extended search,   *)
(* case-insensitive, keys title / searchText / url).  A pattern is parsed  *)
(* into its extended-search tokens; a document is a hit when one key       *)
(* matches every token; a better-weighted key gives a lower score.  Scores *)
(* are in hundredths (0 = perfect, 100 = no match).                        *)
(***************************************************************************)

EQ_QUOTE == <<"=", "\"">>

\* the strategy patterns built by searchLocal
ExactPattern(q) == EQ_QUOTE \o q \o <<"\"">>
PrefixPattern(word) == <<"^">> \o word

NonEmpty(s) == s # <<>>

\* extended-search tokens of a pattern: [op, text]
FuseTokens(pattern) ==
  IF startsWith(pattern, EQ_QUOTE) /\ Len(pattern) >= 3 /\ pattern[Len(pattern)] = "\""
  THEN << [op |-> "exact", text |-> toLowerCase(SubSeq(pattern, 3, Len(pattern) - 1))] >>
  ELSE LET words == SelectSeq(splitWhitespace(pattern), NonEmpty) IN
       [i \in 1..Len(words) |->
          IF Head(words[i]) = "^" /\ Len(words[i]) > 1
          THEN [op |-> "prefix", text |-> toLowerCase(Tail(words[i]))]
          ELSE [op |-> "fuzzy", text |-> toLowerCase(words[i])]]

TokenMatches(token, field) ==
  CASE token.op = "exact" -> field = token.text
    [] token.op = "prefix" -> startsWith(field, token.text)
    [] OTHER -> includes(field, token.text)

FieldMatches(tokens, field) ==
  /\ tokens # <<>>
  /\ \A i \in 1..Len(tokens) : TokenMatches(tokens[i], toLowerCase(field))

FUSE_NO_MATCH == 100
FUSE_TITLE_SCORE == 0
FUSE_SEARCHTEXT_SCORE == 30
FUSE_URL_SCORE == 60

\* score of a document for a pattern
FuseScore(doc, pattern) ==
  LET tokens == FuseTokens(pattern) IN
  IF FieldMatches(tokens, doc.title) THEN FUSE_TITLE_SCORE
  ELSE IF FieldMatches(tokens, doc.searchText) THEN FUSE_SEARCHTEXT_SCORE
  ELSE IF FieldMatches(tokens, doc.url) THEN FUSE_URL_SCORE
  ELSE FUSE_NO_MATCH

\* this.fuse.search(pattern, { limit }): the hits, best score first (index
\* order among equal scores), cut to limit
FuseSearch(fuseDocs, pattern, limit) ==
  LET scored == [i \in 1..Len(fuseDocs) |->
                   [item |-> fuseDocs[i], score |-> FuseScore(fuseDocs[i], pattern)]]
      IsHit(h) == h.score < FUSE_NO_MATCH
      hits == SelectSeq(scored, IsHit)
      lt == [pr \in (1..Len(hits)) \X (1..Len(hits)) |->
               hits[pr[1]].score < hits[pr[2]].score]
  IN Take(Permute(hits, SortIdx(Len(hits), lt)), limit)

(***************************************************************************)
(* SearchEngine.calculateScore                                             *)
(***************************************************************************)

\* contribution of one query word against the title words
RECURSIVE WordScore(_, _)
WordScore(queryWord, titleWords) ==
  IF titleWords = <<>> THEN 0
  ELSE (IF Head(titleWords) = queryWord THEN 40
        ELSE IF includes(Head(titleWords), queryWord) THEN 20 ELSE 0)
       + WordScore(queryWord, Tail(titleWords))

RECURSIVE WordsScore(_, _)
WordsScore(queryWords, titleWords) ==
  IF queryWords = <<>> THEN 0
  ELSE WordScore(Head(queryWords), titleWords) + WordsScore(Tail(queryWords), titleWords)

LongerThanOne(w) == Len(w) > 1

\* hostname of the url contains the query (false when the url does not parse)
DomainIncludes(url, queryLower) ==
  LET u == ParseURL(url) IN u.ok /\ includes(toLowerCase(u.hostname), queryLower)

calculateScore(query, doc, boost, now) ==
  LET queryLower == toLowerCase(query)
      titleLower == toLowerCase(doc.title)
      urlLower == toLowerCase(doc.url)
      searchTextLower == toLowerCase(doc.searchText)
      queryWords == SelectSeq(splitWhitespace(queryLower), LongerThanOne)
      titleWords == splitWhitespace(titleLower)
      elapsed == now - doc.lastVisitTime
      typeScore ==
        CASE doc.type = "tab" -> 15
          [] doc.type = "history" ->
               (IF doc.visitCount > 1 THEN Min(doc.visitCount * 2, 20) ELSE 0)
               + (IF doc.lastVisitTime # 0
                  THEN (IF elapsed < DAY THEN 10 ELSE IF elapsed < 7 * DAY THEN 5 ELSE 0)
                  ELSE 0)
               + 5
          [] doc.type = "bookmark" -> 10
          [] OTHER -> 0
      score ==
        (IF titleLower = queryLower THEN 500
         ELSE IF includes(titleLower, queryLower) THEN 200 ELSE 0)
        + (IF startsWith(titleLower, queryLower) THEN 150 ELSE 0)
        + WordsScore(queryWords, titleWords)
        + (IF includes(urlLower, queryLower) THEN 30 ELSE 0)
        + (IF includes(searchTextLower, queryLower) THEN 20 ELSE 0)
        + typeScore
        + (IF DomainIncludes(doc.url, queryLower) THEN 25 ELSE 0)
  IN score * boost

(***************************************************************************)
(* SearchEngine.searchLocal: query variants, per-variant scoring, merge    *)
(***************************************************************************)

\* a prefix filter with the threshold of the word filter
AtLeastThreeAsWords(word) == Len(word) >= MIN_QUERY_LENGTH

AtLeastMinLength(word) == Len(word) >= MIN_QUERY_LENGTH
AtLeastThree(word) == Len(word) >= 3

\* searchStrategies
Strategies(cleanQuery) ==
  LET words == splitWhitespace(cleanQuery)
      wordList == SelectSeq(words, AtLeastMinLength)
      prefixList == SelectSeq(words, AtLeastThree)
  IN << [query |-> ExactPattern(cleanQuery), boost |-> 100, description |-> "exact"],
        [query |-> cleanQuery, boost |-> 80, description |-> "normal"] >>
     \o [i \in 1..Len(wordList) |->
           [query |-> wordList[i], boost |-> 60, description |-> "word"]]
     \o [i \in 1..Len(prefixList) |->
           [query |-> PrefixPattern(prefixList[i]), boost |-> 70, description |-> "prefix"]]

ResultOf(doc, finalScore) ==
  [id |-> doc.id, type |-> doc.type, title |-> doc.title, url |-> doc.url,
   score |-> finalScore,
   lastVisitTime |-> IF doc.type = "history" THEN doc.lastVisitTime ELSE 0,
   visitCount |-> IF doc.type = "history" THEN doc.visitCount ELSE 0]

\* a merge in which the hit handled last replaces the entry
MapSetLastHit(allResults, result) ==
  IF \E i \in 1..Len(allResults) : allResults[i].id = result.id
  THEN LET i == CHOOSE k \in 1..Len(allResults) : allResults[k].id = result.id IN
       [allResults EXCEPT ![i] = result]
  ELSE Append(allResults, result)

\* allResults.set(doc.id, result) unless an entry with a score at least as
\* high exists; a Map keeps the position of an existing key
MapSet(allResults, result) ==
  IF \E i \in 1..Len(allResults) : allResults[i].id = result.id
  THEN LET i == CHOOSE k \in 1..Len(allResults) : allResults[k].id = result.id IN
       IF result.score > allResults[i].score
       THEN [allResults EXCEPT ![i] = result]
       ELSE allResults
  ELSE Append(allResults, result)

RECURSIVE MergeHits(_, _, _, _, _)
MergeHits(allResults, fuseResults, cleanQuery, boost, now) ==
  IF fuseResults = <<>> THEN allResults
  ELSE LET fuseResult == Head(fuseResults)
           doc == fuseResult.item
           customScore == calculateScore(cleanQuery, doc, boost, now)
           fuseWeight == 100 - fuseResult.score
           finalScore == customScore + fuseWeight
       IN MergeHits(MapSet(allResults, ResultOf(doc, finalScore)),
                    Tail(fuseResults), cleanQuery, boost, now)

\* the per-variant fetch limit handed to fuse.search
VariantLimit(limit) == limit * FETCH_FACTOR

RECURSIVE RunStrategies(_, _, _, _, _, _)
RunStrategies(allResults, strategies, fuseDocs, cleanQuery, variantLimit, now) ==
  IF strategies = <<>> THEN allResults
  ELSE LET strategy == Head(strategies)
           fuseResults == FuseSearch(fuseDocs, strategy.query, variantLimit)
       IN RunStrategies(MergeHits(allResults, fuseResults, cleanQuery, strategy.boost, now),
                        Tail(strategies), fuseDocs, cleanQuery, variantLimit, now)

\* Array.from(allResults.values()) after all variants ran
MergedResults(fuseDocs, cleanQuery, variantLimit, now) ==
  RunStrategies(<<>>, Strategies(cleanQuery), fuseDocs, cleanQuery, variantLimit, now)

(***************************************************************************)
(* SearchEngine.deduplicateResults / deduplicateResultsByDomain            *)
(***************************************************************************)

RECURSIVE DedupByDomain(_, _, _)
DedupByDomain(sortedResults, maxPerDomain, kept) ==
  IF sortedResults = <<>> THEN kept
  ELSE LET result == Head(sortedResults)
           seen == \E i \in 1..Len(kept) : kept[i].id = result.id
           domain == extractMainDomain(result.url)
           currentCount ==
             Cardinality({i \in 1..Len(kept) : extractMainDomain(kept[i].url) = domain})
       IN DedupByDomain(Tail(sortedResults), maxPerDomain,
                        IF ~seen /\ currentCount < maxPerDomain
                        THEN Append(kept, result) ELSE kept)

\* a cap that walks the candidates in the order of the merged map
deduplicateResultsByDomainUnsorted(results, maxPerDomain) ==
  DedupByDomain(results, maxPerDomain, <<>>)

deduplicateResultsByDomain(results, maxPerDomain) ==
  DedupByDomain(SortByScoreDesc(results), maxPerDomain, <<>>)

RECURSIVE DedupById(_, _)
DedupById(results, kept) ==
  IF results = <<>> THEN kept
  ELSE DedupById(Tail(results),
                 IF \E i \in 1..Len(kept) : kept[i].id = Head(results).id
                 THEN kept ELSE Append(kept, Head(results)))

\* the types in the order in which they first appear (Map insertion order)
RECURSIVE TypesInOrder(_, _)
TypesInOrder(results, types) ==
  IF results = <<>> THEN types
  ELSE TypesInOrder(Tail(results),
                    IF \E i \in 1..Len(types) : types[i] = Head(results).type
                    THEN types ELSE Append(types, Head(results).type))

\* the dedup of a type with domain capping switched off
DedupOfTypeByIdOnly(results, type) ==
  DedupById(SelectSeq(results, LAMBDA r : r.type = type), <<>>)

DedupOfType(results, type) ==
  LET OfType(r) == r.type = type
      typeResults == SelectSeq(results, OfType)
  IN CASE type = "history" -> deduplicateResultsByDomain(typeResults, HISTORY_MAX_PER_DOMAIN)
       [] type = "bookmark" -> deduplicateResultsByDomain(typeResults, BOOKMARK_MAX_PER_DOMAIN)
       [] OTHER -> DedupById(typeResults, <<>>)

RECURSIVE DedupTypes(_, _)
DedupTypes(results, types) ==
  IF types = <<>> THEN <<>>
  ELSE DedupOfType(results, Head(types)) \o DedupTypes(results, Tail(types))

deduplicateResults(results) == DedupTypes(results, TypesInOrder(results, <<>>))

(***************************************************************************)
(* SearchEngine.applySortingOptimization                                   *)
(***************************************************************************)

\* SearchEngine.getQuickUserHabitBoost: analyticsCache is never filled, so
\* the lookup finds no entry
getQuickUserHabitBoost(result) == 0

AdjustedScore(result, queryLower, now) ==
  LET titleLower == toLowerCase(result.title)
      elapsed == now - result.lastVisitTime
      titleLength == Len(result.title)
  IN result.score
     + (IF titleLower = queryLower THEN 1000
        ELSE IF startsWith(titleLower, queryLower) THEN 500
        ELSE IF includes(titleLower, queryLower) THEN 200 ELSE 0)
     + (IF DomainIncludes(result.url, queryLower) THEN 100 ELSE 0)
     + (CASE result.type = "tab" -> 150
          [] result.type = "bookmark" -> 100
          [] result.type = "history" -> 50
          [] OTHER -> 0 - 50)
     + getQuickUserHabitBoost(result)
     + (IF result.type = "history"
        THEN (IF result.visitCount > 1 THEN Min(result.visitCount * 5, 100) ELSE 0)
             + (IF result.lastVisitTime # 0
                THEN (IF elapsed < DAY THEN 80
                      ELSE IF elapsed < 7 * DAY THEN 40
                      ELSE IF elapsed < 30 * DAY THEN 20 ELSE 0)
                ELSE 0)
        ELSE 0)
     + (IF titleLength < 30 THEN 20 ELSE IF titleLength > 80 THEN 0 - 10 ELSE 0)

\* typeOrder[type] || 999
TypeOrder(type) ==
  LET typeOrder == CASE type = "tab" -> 0
                     [] type = "bookmark" -> 1
                     [] type = "history" -> 2
                     [] type = "suggestion" -> 3
                     [] OTHER -> 0
  IN IF typeOrder = 0 THEN 999 ELSE typeOrder

\* a comparator whose visit-time rule has the operands the other way round
TieBandCompareOldestFirst(a, b, queryLower) ==
  LET scoreDiff == b.score - a.score
      aExactMatch == toLowerCase(a.title) = queryLower
      bExactMatch == toLowerCase(b.title) = queryLower
      aStartsWithQuery == startsWith(toLowerCase(a.title), queryLower)
      bStartsWithQuery == startsWith(toLowerCase(b.title), queryLower)
  IN IF Abs(scoreDiff) > TIE_BAND THEN scoreDiff
     ELSE IF aExactMatch # bExactMatch THEN (IF aExactMatch THEN 0 - 1 ELSE 1)
     ELSE IF aStartsWithQuery # bStartsWithQuery THEN (IF aStartsWithQuery THEN 0 - 1 ELSE 1)
     ELSE IF TypeOrder(a.type) # TypeOrder(b.type) THEN TypeOrder(a.type) - TypeOrder(b.type)
     ELSE IF a.type = "history" /\ b.type = "history" /\ a.visitCount # b.visitCount
          THEN b.visitCount - a.visitCount
     ELSE IF a.type = "history" /\ b.type = "history" /\ a.lastVisitTime # b.lastVisitTime
          THEN a.lastVisitTime - b.lastVisitTime
     ELSE Len(a.title) - Len(b.title)

\* the comparator of the multi-level sort: negative puts a first
TieBandCompare(a, b, queryLower) ==
  LET scoreDiff == b.score - a.score
      aExactMatch == toLowerCase(a.title) = queryLower
      bExactMatch == toLowerCase(b.title) = queryLower
      aStartsWithQuery == startsWith(toLowerCase(a.title), queryLower)
      bStartsWithQuery == startsWith(toLowerCase(b.title), queryLower)
  IN IF Abs(scoreDiff) > TIE_BAND THEN scoreDiff
     ELSE IF aExactMatch # bExactMatch THEN (IF aExactMatch THEN 0 - 1 ELSE 1)
     ELSE IF aStartsWithQuery # bStartsWithQuery THEN (IF aStartsWithQuery THEN 0 - 1 ELSE 1)
     ELSE IF TypeOrder(a.type) # TypeOrder(b.type) THEN TypeOrder(a.type) - TypeOrder(b.type)
     ELSE IF a.type = "history" /\ b.type = "history" /\ a.visitCount # b.visitCount
          THEN b.visitCount - a.visitCount
     ELSE IF a.type = "history" /\ b.type = "history" /\ a.lastVisitTime # b.lastVisitTime
          THEN b.lastVisitTime - a.lastVisitTime
     ELSE Len(a.title) - Len(b.title)

\* results.map(...) of step 1: every result with its adjusted score
OptimizedResults(results, queryLower, now) ==
  [i \in 1..Len(results) |->
     [results[i] EXCEPT !.score = AdjustedScore(results[i], queryLower, now)]]

\* every list applySortingOptimization may return
applySortingOptimization(results, query, limit, now) ==
  LET queryLower == toLowerCase(query)
      optimizedResults == OptimizedResults(results, queryLower, now)
      n == Len(optimizedResults)
      lt == [pr \in (1..n) \X (1..n) |->
               TieBandCompare(optimizedResults[pr[1]], optimizedResults[pr[2]], queryLower) < 0]
  IN { Take(sortedResults, limit) : sortedResults \in SortOutcomes(optimizedResults, lt) }

\* every list searchLocal may return
searchLocal(initialized, fuseDocs, query, limit, now) ==
  LET cleanQuery == toLowerCase(query) IN
  IF ~initialized THEN { <<>> }
  ELSE IF Len(cleanQuery) < MIN_QUERY_LENGTH THEN { <<>> }
  ELSE LET searchResults == MergedResults(fuseDocs, cleanQuery, VariantLimit(limit), now)
           uniqueResults == deduplicateResults(searchResults)
       IN applySortingOptimization(uniqueResults, cleanQuery, limit, now)

(***************************************************************************)
(* Remote suggestions and SearchEngine.search                              *)
(***************************************************************************)

\* encodeURIComponent on the characters of this model
EncodeChar(c) ==
  CASE c = " " -> <<"%", "2", "0">>
    [] c = "/" -> <<"%", "2", "F">>
    [] c = ":" -> <<"%", "3", "A">>
    [] OTHER -> <<c>>

RECURSIVE encodeURIComponent(_)
encodeURIComponent(s) ==
  IF s = <<>> THEN <<>> ELSE EncodeChar(Head(s)) \o encodeURIComponent(Tail(s))

GOOGLE_SEARCH ==
  HTTPS \o <<"w", "w", "w", ".", "g", "o", "o", "g", "l", "e", ".", "c", "o", "m",
             "/", "s", "e", "a", "r", "c", "h", "?", "q", "=">>

\* a getGoogleSuggestions that reads the body whatever the status
getGoogleSuggestionsAnyStatus(query, response) ==
  Take(response.list, MAX_SUGGESTIONS)

\* SearchEngine.getGoogleSuggestions: response is [ok, list]; a network error,
\* a non-OK status and a malformed body all give ok = FALSE
getGoogleSuggestions(query, response) ==
  IF ~response.ok THEN <<>>
  ELSE LET Keep(suggestion) ==
             suggestion # <<>> /\ toLowerCase(trim(suggestion)) # toLowerCase(query)
       IN Take(SelectSeq(response.list, Keep), MAX_SUGGESTIONS)

\* an id that leaves the index out
SuggestionIdFixed(index) == <<"s", "u", "g", "g", "e", "s", "t", "i", "o", "n">>

\* id: `suggestion-${index}`
SuggestionId(index) ==
  <<"s", "u", "g", "g", "e", "s", "t", "i", "o", "n", "-">> \o Digits(index)

\* a suggestion scored on the scale of the boosted document scores
SuggestionScoreBoosted(total, index) == (10 + (total - index)) * 1000

\* score: 10 + (googleSuggestions.length - index)
SuggestionScore(total, index) == 10 + (total - index)

\* the entries search pushes for the suggestions (index is 0-based)
RECURSIVE SuggestionResults(_, _, _, _)
SuggestionResults(googleSuggestions, index, total, cleanQuery) ==
  IF googleSuggestions = <<>> THEN <<>>
  ELSE LET suggestion == Head(googleSuggestions) IN
       (IF suggestion # cleanQuery
        THEN << [id |-> SuggestionId(index),
                 type |-> "suggestion",
                 title |-> suggestion,
                 url |-> GOOGLE_SEARCH \o encodeURIComponent(suggestion),
                 score |-> SuggestionScore(total, index),
                 lastVisitTime |-> 0,
                 visitCount |-> 0] >>
        ELSE <<>>)
       \o SuggestionResults(Tail(googleSuggestions), index + 1, total, cleanQuery)

\* allResults.sort(by score).slice(0, limit)
FinalOrder(allResults, limit) == Take(SortByScoreDesc(allResults), limit)

\* the list search resolves with, given what searchLocal returned
MergeWithSuggestions(localResults, googleSuggestions, cleanQuery, limit) ==
  FinalOrder(localResults
               \o SuggestionResults(googleSuggestions, 0, Len(googleSuggestions), cleanQuery),
             limit)

\* a guard that measures the query as typed, without trimming it
RejectedQueryUntrimmed(query) ==
  query = <<>> \/ Len(query) < MIN_QUERY_LENGTH

\* the guard at the head of search: the query is rejected before any work
RejectedQuery(query) ==
  trim(query) = <<>> \/ Len(trim(query)) < MIN_QUERY_LENGTH

(***************************************************************************)
(* Bounds and the data the browser can hold                                *)
(***************************************************************************)

MaxBookmarks == 8     \* bookmarks in a ranking input
MaxLimit == 4         \* largest explicit limit passed to search
MaxLive == 1          \* bookmarks the running browser holds
MaxBuilds == 2        \* buildIndex calls in flight at once
MaxSeq == 3           \* searches one query session starts
MaxBurst == 2         \* onVisited signals of one burst

NOW == 1000           \* Date.now() of the ranking inputs, in hours

TitleOf(i) ==
  CASE i % 3 = 1 -> <<"a", "b">>
    [] i % 3 = 2 -> <<"A", "b", " ", "c">>
    [] OTHER -> <<"c", "a", "b">>

\* bookmark nodes of one site, numbered from 1
BookmarkNode(i) ==
  [id |-> i, title |-> TitleOf(i), url |-> HTTPS \o <<"a", ".", "c", "o", "/">> \o Digits(i)]

BookmarkNodes(n) == [i \in 1..n |-> BookmarkNode(i)]

\* n bookmarks of one site that all carry the title "ab"
SameTitleBookmarks(n) == [i \in 1..n |-> [BookmarkNode(i) EXCEPT !.title = <<"a", "b">>]]

\* a bookmark of another site with the same title, created after n others
OtherSiteBookmark(n) ==
  [id |-> n + 1, title |-> <<"a", "b">>, url |-> HTTPS \o <<"b", ".", "c", "o", "/">> \o Digits(n + 1)]

FOLDER == [id |-> 0, title |-> <<"a", "b">>, url |-> <<>>]

TAB_AB == [id |-> 1, title |-> <<"a", "b">>, url |-> HTTPS \o <<"t", ".", "c", "o", "/">>]
TAB_UNTITLED == [id |-> 2, title |-> <<>>, url |-> HTTPS \o <<"b", ".", "a", ".", "c", "o", "/", "a", "b">>]
TAB_NO_URL == [id |-> 3, title |-> <<"a", "b">>, url |-> <<>>]

TabLists ==
  { <<>>, <<TAB_AB>>, <<TAB_UNTITLED, TAB_NO_URL>>, <<TAB_AB, TAB_UNTITLED>> }

HistoryItem(id, title, url, lastVisitTime, visitCount) ==
  [id |-> id, title |-> title, url |-> url,
   lastVisitTime |-> lastVisitTime, visitCount |-> visitCount]

\* four visits of one registrable domain (h.co.uk), one of them older
HISTORY_ONE_SITE ==
  << HistoryItem(1, <<"a", "b">>, HTTPS \o <<"h", ".", "c", "o", ".", "u", "k", "/">>, 990, 1),
     HistoryItem(2, <<"a", "b", " ", "c">>, HTTPS \o <<"x", ".", "h", ".", "c", "o", ".", "u", "k", "/">>, 900, 3),
     HistoryItem(3, <<"a", "b">>, HTTPS \o <<"y", ".", "h", ".", "c", "o", ".", "u", "k", "/">>, 500, 1),
     HistoryItem(4, <<"a", "b">>, HTTPS \o <<"h", ".", "c", "o", ".", "u", "k", "/", "a", "b">>, 995, 2) >>

\* three sites visited the same day, with close visit counts
HISTORY_THREE_SITES ==
  << HistoryItem(5, <<"a", "b">>, HTTPS \o <<"k", ".", "n", "e", "t", "/">>, 990, 10),
     HistoryItem(6, <<"a", "b">>, HTTPS \o <<"m", ".", "n", "e", "t", "/">>, 990, 12),
     HistoryItem(7, <<"a", "b">>, HTTPS \o <<"n", ".", "n", "e", "t", "/">>, 990, 13) >>

\* an item without a title and one whose url does not parse
HISTORY_ODD ==
  << HistoryItem(8, <<>>, HTTPS \o <<"k", ".", "n", "e", "t", "/">>, 990, 1),
     HistoryItem(9, <<"a", "b">>, <<"n", "o", "t", " ", "a", " ", "u", "r", "l">>, 990, 1) >>

\* a title that starts with the word "ab" and is n characters long
LongTitle(n) == <<"a", "b", " ">> \o [i \in 1..(n - 3) |-> "x"]

\* three sites visited the same day: the more visits, the longer the title
\* (4, 30 and 81 characters)
HISTORY_LONG_TITLES ==
  << HistoryItem(5, LongTitle(4), HTTPS \o <<"k", ".", "n", "e", "t", "/">>, 990, 10),
     HistoryItem(6, LongTitle(30), HTTPS \o <<"m", ".", "n", "e", "t", "/">>, 990, 12),
     HistoryItem(7, LongTitle(81), HTTPS \o <<"n", ".", "n", "e", "t", "/">>, 990, 13) >>

HistoryLists == { <<>>, HISTORY_ONE_SITE, HISTORY_THREE_SITES, HISTORY_ODD }

\* a tab whose title holds the query inside a word, and a page visited five
\* times today whose title holds it as a word of its own
TAB_INFIX == [id |-> 4, title |-> <<"x", "a", "b">>, url |-> HTTPS \o <<"a", ".", "c", "o", "/", "a", "b">>]
HISTORY_WORD ==
  << HistoryItem(10, <<"x", " ", "a", "b">>, HTTPS \o <<"a", ".", "c", "o", "/", "1">>, 990, 5) >>

\* what the user types
Q_EMPTY == <<>>
Q_BLANK == <<" ", " ">>
Q_ONE == <<"a">>
Q_ONE_PADDED == <<" ", "a">>
Q_AB == <<"a", "b">>
Q_AB_PADDED == <<" ", "A", "b", " ">>
Q_TWO_WORDS == <<"a", "b", " ", "c">>
Q_PREFIX == <<"c", "a", "b">>

Queries == { Q_EMPTY, Q_BLANK, Q_ONE, Q_ONE_PADDED, Q_AB, Q_AB_PADDED, Q_TWO_WORDS, Q_PREFIX }

\* an unpaired surrogate code unit: encodeURIComponent throws URIError on it
LONE_SURROGATE == "uD800"

\* what the suggestion endpoint answers
Responses ==
  { [ok |-> FALSE, list |-> << <<"a", "b", "c">> >>],
    [ok |-> TRUE, list |-> <<>>],
    [ok |-> TRUE, list |-> << <<"a", "b">>, <<"a", "b", "c">>, <<"a", "b", " ", "d">> >>],
    [ok |-> TRUE, list |-> << <<"a", "b">>, <<"a", LONE_SURROGATE>> >>],
    [ok |-> TRUE, list |-> << <<"x", "a", "b">>, <<"a", "b", "c">> >>] }

(***************************************************************************)
(* State                                                                   *)
(***************************************************************************)

VARIABLES
  documents,        \* SearchEngine.documents
  fuse,             \* SearchEngine.fuse: the documents the index was compiled from
  isInitialized,    \* SearchEngine.isInitialized
  isInitializing,   \* SearchManager.isInitializing
  initCalled,       \* background.ts has called searchManager.initialize()
  builds,           \* the callers of the buildIndex calls that have not returned yet
  lastBuild,        \* how the buildIndex call that returned last ended
  staleBuilds,      \* the oldest calls in builds that began before a call that has written its index (history variable)
  debouncePending,  \* the timer of debouncedRefreshIndex is armed
  inflight,         \* the search call waiting for the suggestion response (at most one)
  lastSearch,       \* the outcome of the search call that returned last
  lastGoodDocs,     \* the documents of the last successful build (history variable)
  latestQueryRef,   \* useSearch: latestQueryRef.current
  inputValue,       \* the value of the [cmdk-input] element
  isComposing,      \* useSearch: isComposing
  shownResults,     \* useSearch: results (the value delivered last, or none)
  mounted,          \* the hook's effect has not been cleaned up
  streamAlive,      \* searchStream$ has not completed
  debounced,        \* the value debounceTime is holding (at most one)
  lastDistinct,     \* the value distinctUntilChanged let through last
  searchSequence,   \* RxSearchManager.searchSequence
  currentQuery,     \* RxSearchManager.currentQuery
  inner,            \* the async searches switchMap has started, by sequence number
  timers,           \* the setTimeout(..., 0) callbacks waiting to run
  deliveredCount,   \* deliveries per sequence number, up to 2 (history variable)
  loading,          \* useSearch: loading
  clock,            \* Date.now(), in hours
  previousSearch,   \* the outcome a caller has kept of an earlier search call
  domainCall,       \* the extractMainDomain call that returned last
  localCall,        \* the searchLocal call that returned last: its variants and its merged map
  lastTabUpdate,    \* whether the tabs.onUpdated signal handled last changed title or url (history variable)
  visitBurst,       \* onVisited signals waiting for the timer, or answered by its last firing (history variable)
  apiCall,          \* the searchBookmarksAndTabs call that settled last: its limit and what it resolved with
  promises,         \* the promises one createDebouncedSearch function has returned, in call order
  settleOrder,      \* the calls whose promise has settled, in the order of settling (history variable)
  dialogStates,     \* DialogStateManager.dialogStates.value: the entries of the Map in insertion order
  stateEvents,      \* the events stateEvents has emitted during the call made last
  dialogNow,        \* Date.now() of the call made last on the dialog manager
  activeTabsMap,    \* TabAnalytics.activeTabsMap: the tracked tabs in insertion order
  visitCalls,       \* the recordVisit calls made so far: the visit and where the call stands
  microtasks,       \* the recordVisit calls waiting at an await, in the order they resume
  statsData,        \* the object statsStorage.get() hands out (website_stats)
  visitsData,       \* the array visitsStorage.get() hands out (website_visits)
  cache,            \* RxStorage.cache: the entry of this.key, if any
  dataSubject,      \* RxStorage.dataSubject.value
  operationSubject, \* RxStorage.operationSubject.value
  debouncedOperation, \* the operation debounceTime is holding (at most one)
  writeStream,      \* the subscription of setupDebouncedWrite is alive
  pendingWrites,    \* executeStorageOperation calls whose await has not returned
  storageArea,      \* what chrome.storage holds under this.key
  changeEvents,     \* chrome.storage.onChanged events not delivered to this context yet
  loadingInitial,   \* the get of loadInitialData has not answered yet
  storageNow,       \* Date.now() of the latest call on the storage
  callCount,        \* calls made on the storage so far (bounds the model)
  lastRead,         \* what get() and getValue() returned last (history variable)
  expectedValue,    \* the value of the latest set, until something replaces it (history variable)
  unwritten         \* the latest operation not passed to chrome.storage yet (history variable)

engineVars == <<documents, fuse, isInitialized>>
managerVars == <<isInitializing, initCalled, builds, lastBuild, staleBuilds, debouncePending>>
searchVars == <<inflight, lastSearch>>
serviceVars == <<engineVars, managerVars, searchVars, lastGoodDocs>>
sessionVars == <<latestQueryRef, inputValue, isComposing, shownResults, mounted, streamAlive, debounced,
                 lastDistinct, searchSequence, currentQuery, inner, timers, deliveredCount,
                 loading>>
debounceVars == <<promises, settleOrder>>
dialogVars == <<dialogStates, stateEvents, dialogNow>>
analyticsVars == <<activeTabsMap, visitCalls, microtasks, statsData, visitsData>>
clientVars == <<apiCall, debounceVars, dialogVars, analyticsVars>>
callVars == <<clock, previousSearch, domainCall, localCall, lastTabUpdate, visitBurst, clientVars>>
storageVars == <<cache, dataSubject, operationSubject, debouncedOperation, writeStream, pendingWrites,
                 storageArea, changeEvents, loadingInitial, storageNow, callCount,
                 lastRead, expectedValue, unwritten>>

\* no call has been observed and the clock shows the time of the inputs
\* no call of the content-side API has been made
ClientsIdle ==
  /\ apiCall = <<>>
  /\ promises = <<>>
  /\ settleOrder = <<>>
  /\ dialogStates = <<>>
  /\ stateEvents = <<>>
  /\ dialogNow = 0
  /\ activeTabsMap = <<>>
  /\ visitCalls = <<>>
  /\ microtasks = <<>>
  /\ statsData = <<>>
  /\ visitsData = <<>>

CallsIdle ==
  /\ clock = NOW
  /\ previousSearch = <<>>
  /\ domainCall = <<>>
  /\ localCall = <<>>
  /\ lastTabUpdate = <<>>
  /\ visitBurst = [waiting |-> 0, answered |-> 0]
  /\ ClientsIdle

\* this.defaultValue, and the result of reading a key that is not stored
DEFAULT_VALUE == "null"
UNDEFINED == "undefined"

\* operationSubject's initial value
NULL_OPERATION == [type |-> "NULL", value |-> UNDEFINED, timestamp |-> 0]

\* what the storage area holds when the instance is constructed
InitialStored == { UNDEFINED, "x" }

\* the state the constructor of RxStorage leaves: subjects created, the
\* debounced pipeline subscribed (it holds the initial null), loadInitialData
\* waiting for its answer
StorageConstructedOn(stored) ==
  /\ cache = <<>>
  /\ dataSubject = DEFAULT_VALUE
  /\ operationSubject = NULL_OPERATION
  /\ debouncedOperation = << NULL_OPERATION >>
  /\ writeStream = TRUE
  /\ pendingWrites = <<>>
  /\ storageArea = stored
  /\ changeEvents = <<>>
  /\ loadingInitial = TRUE
  /\ storageNow = 0
  /\ callCount = 0
  /\ lastRead = <<>>
  /\ expectedValue = <<>>
  /\ unwritten = <<>>

\* the instance constructed on an empty storage area
StorageConstructed == StorageConstructedOn(UNDEFINED)

\* what the three source callbacks of one buildIndex call can answer while the
\* service runs
LiveTabs == <<TAB_AB>>
LiveHistory == <<HISTORY_ONE_SITE[1]>>
Snapshots ==
  { [bookmarks |-> <<FOLDER>> \o BookmarkNodes(n), tabs |-> LiveTabs, history |-> LiveHistory] :
      n \in 0..MaxLive }

\* private documents: IndexDocument[] = []
InitialDocuments == <<>>

(***************************************************************************)
(* SearchEngine.search                                                     *)
(***************************************************************************)

EncodeThrows(s) == \E i \in 1..Len(s) : s[i] = LONE_SURROGATE

\* building the suggestion entries throws (URIError from encodeURIComponent)
PushThrows(googleSuggestions, cleanQuery) ==
  \E i \in 1..Len(googleSuggestions) :
    googleSuggestions[i] # cleanQuery /\ EncodeThrows(googleSuggestions[i])

\* a search whose catch block rethrows
SearchCatchRethrow(fallback) == [threw |-> TRUE, results |-> <<>>]

\* catch (error) { return this.searchLocal(cleanQuery, limit) }
SearchCatch(fallback) == [threw |-> FALSE, results |-> fallback]

\* search up to the await: the guards, searchLocal (synchronous) and the
\* request to the suggestion endpoint
SearchStart(query, limit) ==
  /\ inflight = <<>>
  /\ lastSearch = <<>>
  /\ IF RejectedQuery(query)
     THEN /\ lastSearch' = << [query |-> query, limit |-> limit, results |-> <<>>,
                               local |-> <<>>, remote |-> <<>>,
                               threw |-> FALSE, caught |-> FALSE,
                               usedIndex |-> FALSE, usedRemote |-> FALSE,
                               remoteFailed |-> FALSE,
                               initAtStart |-> isInitialized,
                               afterBuild |-> lastBuild,
                               rebuilt |-> FALSE] >>
          /\ inflight' = inflight
     ELSE /\ \E local \in searchLocal(isInitialized, fuse, trim(query), limit, clock) :
               inflight' = << [query |-> query, limit |-> limit, local |-> local,
                               usedIndex |-> isInitialized,
                               initAtStart |-> isInitialized,
                               afterBuild |-> lastBuild,
                               rebuilt |-> FALSE] >>
          /\ lastSearch' = <<>>
  /\ UNCHANGED <<sessionVars, callVars, storageVars>>
  /\ UNCHANGED <<engineVars, managerVars, lastGoodDocs>>

\* search after the await: merge the suggestions, sort, cut to limit
SearchFinish(response) ==
  /\ inflight # <<>>
  /\ LET call == inflight[1]
         cleanQuery == trim(call.query)
         googleSuggestions == getGoogleSuggestions(cleanQuery, response)
         Returned(outcome, caught) ==
           << [query |-> call.query, limit |-> call.limit,
               results |-> outcome.results, local |-> call.local,
               remote |-> googleSuggestions,
               threw |-> outcome.threw, caught |-> caught,
               usedIndex |-> call.usedIndex, usedRemote |-> TRUE,
               remoteFailed |-> ~response.ok,
               initAtStart |-> call.initAtStart,
               afterBuild |-> call.afterBuild,
               rebuilt |-> call.rebuilt] >>
     IN IF PushThrows(googleSuggestions, cleanQuery)
        THEN \E fallback \in searchLocal(isInitialized, fuse, cleanQuery, call.limit, clock) :
               lastSearch' = Returned(SearchCatch(fallback), TRUE)
        ELSE lastSearch' =
               Returned([threw |-> FALSE,
                         results |-> MergeWithSuggestions(call.local, googleSuggestions,
                                                          cleanQuery, call.limit)],
                        FALSE)
  /\ inflight' = <<>>
  /\ UNCHANGED <<sessionVars, callVars, storageVars>>
  /\ UNCHANGED <<engineVars, managerVars, lastGoodDocs>>

\* SearchManager.handleSearchRequest after its await: the results leave with
\* sendResponse
SendResponse ==
  /\ lastSearch # <<>>
  /\ lastSearch' = <<>>
  /\ UNCHANGED <<sessionVars, callVars, storageVars>>
  /\ UNCHANGED <<engineVars, managerVars, inflight, lastGoodDocs>>

(***************************************************************************)
(* SearchEngine.buildIndex, SearchManager.initialize / refreshIndex        *)
(***************************************************************************)

\* buildIndex calls between their start and their return
RunningBuilds == Len(builds)

\* the sequence without its i-th element
RemoveAt(seq, i) == SubSeq(seq, 1, i - 1) \o SubSeq(seq, i + 1, Len(seq))

\* buildIndex up to `await Promise.all([...])`: the three fetches are issued
StartBuild(caller) ==
  /\ Len(builds) < MaxBuilds
  /\ builds' = Append(builds, caller)

\* SearchManager.initialize, called once by background.ts at start-up
Initialize ==
  /\ ~initCalled
  /\ initCalled' = TRUE
  /\ IF isInitializing
     THEN UNCHANGED <<isInitializing, builds>>
     ELSE /\ isInitializing' = TRUE
          /\ StartBuild("initialize")
  /\ UNCHANGED <<sessionVars, callVars, storageVars>>
  /\ UNCHANGED <<engineVars, lastBuild, staleBuilds, debouncePending, searchVars, lastGoodDocs>>

\* SearchManager.refreshIndex: the part of a listener that asks for a rebuild
refreshIndex ==
  IF isInitializing
  THEN UNCHANGED builds
  ELSE StartBuild("refreshIndex")

\* a listener that calls refreshIndex at once
SignalRefresh ==
  /\ initCalled
  /\ refreshIndex
  /\ UNCHANGED <<sessionVars, callVars, storageVars>>
  /\ UNCHANGED <<engineVars, isInitializing, initCalled, lastBuild, staleBuilds, debouncePending,
                 searchVars, lastGoodDocs>>

\* chrome.bookmarks.onCreated
BookmarkCreated == SignalRefresh

\* chrome.bookmarks.onRemoved
BookmarkRemoved == SignalRefresh

\* chrome.bookmarks.onChanged and onMoved
BookmarkChangedOrMoved == SignalRefresh

\* chrome.tabs.onCreated
TabCreated == SignalRefresh

\* chrome.tabs.onRemoved
TabRemoved == SignalRefresh

\* an onUpdated listener that does not look at changeInfo
TabUpdatedAlways(titleOrUrlChanged) ==
  /\ initCalled
  /\ refreshIndex
  /\ lastTabUpdate' = << titleOrUrlChanged >>
  /\ UNCHANGED <<sessionVars, clock, previousSearch, domainCall, visitBurst, localCall, storageVars, clientVars>>
  /\ UNCHANGED <<engineVars, isInitializing, initCalled, lastBuild, staleBuilds, debouncePending,
                 searchVars, lastGoodDocs>>

\* chrome.tabs.onUpdated: refresh only when the title or the url changed
TabUpdated(titleOrUrlChanged) ==
  /\ initCalled
  /\ IF titleOrUrlChanged
     THEN refreshIndex
     ELSE UNCHANGED builds
  /\ lastTabUpdate' = << titleOrUrlChanged >>
  /\ UNCHANGED <<sessionVars, clock, previousSearch, domainCall, visitBurst, localCall, storageVars, clientVars>>
  /\ UNCHANGED <<engineVars, isInitializing, initCalled, lastBuild, staleBuilds, debouncePending,
                 searchVars, lastGoodDocs>>

\* an onVisited listener that calls refreshIndex at once, as the other
\* listeners do, and arms the timer as well
HistoryVisitedAtOnce ==
  /\ initCalled
  /\ visitBurst.waiting < MaxBurst
  /\ debouncePending' = TRUE
  /\ refreshIndex
  /\ visitBurst' = [waiting |-> visitBurst.waiting + 1, answered |-> 0]
  /\ UNCHANGED <<sessionVars, clock, previousSearch, domainCall, lastTabUpdate, localCall, storageVars, clientVars>>
  /\ UNCHANGED <<engineVars, isInitializing, initCalled, lastBuild, staleBuilds,
                 searchVars, lastGoodDocs>>

\* chrome.history.onVisited: (re)arm the 2 s timer of debouncedRefreshIndex
HistoryVisited ==
  /\ initCalled
  /\ visitBurst.waiting < MaxBurst
  /\ debouncePending' = TRUE
  /\ visitBurst' = [waiting |-> visitBurst.waiting + 1, answered |-> 0]
  /\ UNCHANGED <<sessionVars, clock, previousSearch, domainCall, lastTabUpdate, localCall, storageVars, clientVars>>
  /\ UNCHANGED <<engineVars, isInitializing, initCalled, builds, lastBuild, staleBuilds,
                 searchVars, lastGoodDocs>>

\* the timer of debouncedRefreshIndex fires
DebounceFire ==
  /\ debouncePending
  /\ debouncePending' = FALSE
  /\ refreshIndex
  /\ visitBurst' = [waiting |-> 0, answered |-> visitBurst.waiting]
  /\ UNCHANGED <<sessionVars, clock, previousSearch, domainCall, lastTabUpdate, localCall, storageVars, clientVars>>
  /\ UNCHANGED <<engineVars, isInitializing, initCalled, lastBuild, staleBuilds, searchVars, lastGoodDocs>>

\* chrome.history.onVisitRemoved
VisitRemoved == SignalRefresh

\* setInterval(() => this.refreshIndex(), 5 * 60 * 1000)
IntervalTick == SignalRefresh

\* `finally { this.isInitializing = false }` of initialize
AfterBuild(caller) ==
  IF caller = "initialize" THEN isInitializing' = FALSE ELSE UNCHANGED isInitializing

\* a buildIndex that clears this.documents before its fetches have answered
DocumentsClearedFirst(docs) == <<>>

\* what a failed buildIndex leaves in this.documents
DocumentsAfterFailure(docs) == docs

\* a search that is waiting has seen a rebuild complete
MarkRebuilt(calls) == [k \in 1..Len(calls) |-> [calls[k] EXCEPT !.rebuilt = TRUE]]

\* Promise.all resolved with the data `snapshot`: buildIndex replaces the
\* documents, rebuilds the fuse index and sets isInitialized, in one
\* synchronous block
\* buildIndex after the await: the documents are replaced, the index compiled
Built(i, snapshot) ==
  /\ i \in 1..Len(builds)
  /\ LET docs == BuildDocuments(snapshot.bookmarks, snapshot.tabs, snapshot.history)
     IN /\ documents' = docs
        /\ fuse' = initializeFuse(docs)
        /\ lastGoodDocs' = docs
  /\ isInitialized' = TRUE
  /\ builds' = RemoveAt(builds, i)
  /\ lastBuild' = << [caller |-> builds[i], outcome |-> "resolved"] >>
  /\ AfterBuild(builds[i])
  /\ inflight' = MarkRebuilt(inflight)
  /\ UNCHANGED <<sessionVars, callVars, storageVars>>
  /\ UNCHANGED <<initCalled, debouncePending, lastSearch>>

BuildComplete(i, snapshot) == Built(i, snapshot) /\ UNCHANGED staleBuilds

\* Promise.all rejected: buildIndex logs and rethrows to its caller
\* buildIndex rethrows what a fetch threw
Failed(i) ==
  /\ i \in 1..Len(builds)
  /\ documents' = DocumentsAfterFailure(documents)
  /\ builds' = RemoveAt(builds, i)
  /\ lastBuild' = << [caller |-> builds[i], outcome |-> "rejected"] >>
  /\ AfterBuild(builds[i])
  /\ UNCHANGED <<sessionVars, callVars, storageVars>>
  /\ UNCHANGED <<fuse, isInitialized, initCalled, debouncePending, searchVars, lastGoodDocs>>

BuildFail(i) == Failed(i) /\ UNCHANGED staleBuilds

(***************************************************************************)
(* The query session: useSearch driving an RxSearchManager                 *)
(***************************************************************************)

\* useSearch: minQueryLength = 2
minQueryLength == 2

\* setResults([])
NoResults == <<>>

\* a search whose promise has settled while it was the latest one
Settled == [query |-> <<>>, status |-> "settled"]

\* the subscription callback of useSearch up to its setTimeout: a value whose
\* query is not the latest one is ignored, the others wait for the timer
Emit(value) ==
  IF mounted /\ latestQueryRef = value.query
  THEN timers' = Append(timers, value)
  ELSE UNCHANGED timers

\* a stream that keeps the inner subscription of every search (mergeMap)
InnerSubscribedAlways(sequence, latest) == TRUE

\* switchMap: only the search started last is still subscribed
InnerSubscribed(sequence, latest) == sequence = latest

\* RxSearchManager.search: a query equal to currentQuery is not passed on; the
\* others restart the debounce timer
ManagerSearch(q) ==
  IF q # currentQuery
  THEN debounced' = <<q>>
  ELSE UNCHANGED debounced

\* useSearch.performSearch, called by the input's onValueChange
PerformSearch(searchQuery) ==
  /\ mounted
  /\ inputValue' = searchQuery
  /\ latestQueryRef' = searchQuery
  /\ IF isComposing
     THEN UNCHANGED <<debounced, shownResults, loading>>
     ELSE IF trim(searchQuery) = <<>> \/ Len(searchQuery) < minQueryLength
          THEN /\ shownResults' = NoResults
               /\ loading' = FALSE
               /\ UNCHANGED debounced
          ELSE /\ loading' = TRUE
               /\ ManagerSearch(searchQuery)
               /\ UNCHANGED shownResults
  /\ UNCHANGED <<isComposing, lastDistinct, searchSequence, currentQuery, inner, timers,
                 mounted, streamAlive, deliveredCount, serviceVars, callVars, storageVars>>

\* useSearch.handleCompositionStart
CompositionStart ==
  /\ mounted
  /\ ~isComposing
  /\ isComposing' = TRUE
  /\ UNCHANGED <<latestQueryRef, inputValue, debounced, shownResults, lastDistinct,
                 searchSequence, currentQuery, inner, timers, mounted, streamAlive, deliveredCount, loading, serviceVars, callVars, storageVars>>

\* useSearch.handleCompositionEndWrapper
CompositionEnd ==
  /\ mounted
  /\ isComposing
  /\ isComposing' = FALSE
  /\ latestQueryRef' = inputValue
  /\ IF inputValue # <<>> /\ Len(inputValue) >= minQueryLength
     THEN /\ loading' = TRUE
          /\ ManagerSearch(inputValue)
          /\ UNCHANGED shownResults
     ELSE /\ IF trim(inputValue) = <<>>
             THEN /\ shownResults' = NoResults
                  /\ loading' = FALSE
             ELSE UNCHANGED <<shownResults, loading>>
          /\ UNCHANGED debounced
  /\ UNCHANGED <<inputValue, lastDistinct, searchSequence, currentQuery, inner, timers,
                 mounted, streamAlive, deliveredCount, serviceVars, callVars, storageVars>>

\* the input element is emptied without a change event
InputReset ==
  /\ mounted
  /\ inputValue # <<>>
  /\ inputValue' = <<>>
  /\ UNCHANGED <<latestQueryRef, isComposing, debounced, shownResults, lastDistinct,
                 searchSequence, currentQuery, inner, timers, mounted, streamAlive, deliveredCount, loading, serviceVars, callVars, storageVars>>

\* useSearch.clearResults
ClearResults ==
  /\ mounted
  /\ latestQueryRef' = <<>>
  /\ shownResults' = NoResults
  /\ loading' = FALSE
  /\ UNCHANGED <<inputValue, isComposing, debounced, lastDistinct,
                 searchSequence, currentQuery, inner, timers, mounted, streamAlive, deliveredCount, serviceVars, callVars, storageVars>>

\* the effect's cleanup: subscription.unsubscribe() and searchManager.destroy()
Unmount ==
  /\ mounted
  /\ mounted' = FALSE
  /\ debounced' = <<>>
  /\ UNCHANGED <<latestQueryRef, inputValue, isComposing, shownResults, lastDistinct, streamAlive,
                 searchSequence, currentQuery, inner, timers, deliveredCount, loading, serviceVars, callVars, storageVars>>

\* debounceTime lets the last value through; distinctUntilChanged drops it if
\* it equals the value passed before; switchMap starts the async search
DebounceElapsed ==
  /\ streamAlive
  /\ debounced # <<>>
  /\ debounced' = <<>>
  /\ IF lastDistinct = debounced
     THEN UNCHANGED <<lastDistinct, searchSequence, currentQuery, inner, timers>>
     ELSE /\ searchSequence < MaxSeq
          /\ lastDistinct' = debounced
          /\ searchSequence' = searchSequence + 1
          /\ currentQuery' = debounced[1]
          /\ IF trim(debounced[1]) = <<>>
             THEN /\ inner' = Append(inner, Settled)
                  /\ Emit([query |-> debounced[1], sequence |-> searchSequence + 1,
                           kind |-> "blank", of |-> debounced[1]])
             ELSE /\ inner' = Append(inner, [query |-> debounced[1], status |-> "waiting"])
                  /\ UNCHANGED timers
  /\ UNCHANGED <<latestQueryRef, inputValue, isComposing, shownResults, mounted, streamAlive,
                 deliveredCount, loading, serviceVars, callVars, storageVars>>

\* what the async function of switchMap returns once its search has settled
SearchOutcome(call, sequence, ok) ==
  IF ok /\ currentQuery = call.query /\ sequence = searchSequence
  THEN [query |-> call.query, sequence |-> sequence, kind |-> "results",
        of |-> call.query]
  ELSE [query |-> currentQuery, sequence |-> searchSequence,
        kind |-> IF ok THEN "stale" ELSE "error",
        of |-> call.query]

\* searchBookmarksTabsAndHistory of the search `sequence` resolves (ok) or
\* rejects; the value reaches the subscriber if the inner is still subscribed
\* the catch block of the switchMap callback returns a value, so the
\* rejection of a search never reaches catchError and the stream goes on
AfterRejection(alive) == alive

SearchSettle(sequence, ok) ==
  /\ sequence \in 1..Len(inner)
  /\ inner[sequence].status = "waiting"
  /\ inner' = [inner EXCEPT ![sequence] =
                        IF sequence < searchSequence
                        THEN [query |-> @.query, status |-> "overtaken"]
                        ELSE Settled]
  /\ IF InnerSubscribed(sequence, searchSequence)
     THEN Emit(SearchOutcome(inner[sequence], sequence, ok))
     ELSE UNCHANGED timers
  /\ streamAlive' = IF ~ok /\ InnerSubscribed(sequence, searchSequence)
                    THEN AfterRejection(streamAlive)
                    ELSE streamAlive
  /\ UNCHANGED <<latestQueryRef, inputValue, isComposing, debounced, shownResults,
                 lastDistinct, searchSequence, currentQuery, mounted, deliveredCount, loading, serviceVars, callVars, storageVars>>

\* the setTimeout(..., 0) callback of the subscription
TimerFire ==
  /\ timers # <<>>
  /\ timers' = Tail(timers)
  /\ IF latestQueryRef # Head(timers).query
     THEN UNCHANGED <<shownResults, deliveredCount, loading>>
     ELSE IF trim(inputValue) = <<>> /\ trim(Head(timers).query) # <<>>
          THEN /\ shownResults' = NoResults
               /\ loading' = FALSE
               /\ UNCHANGED deliveredCount
          ELSE /\ shownResults' = <<Head(timers)>>
               /\ loading' = FALSE
               /\ deliveredCount' =
                    [deliveredCount EXCEPT ![Head(timers).sequence] = Min(@ + 1, 2)]
  /\ UNCHANGED <<latestQueryRef, inputValue, isComposing, debounced, lastDistinct,
                 searchSequence, currentQuery, inner, mounted, streamAlive, serviceVars, callVars, storageVars>>

\* the session right after the hook has mounted
SessionMounted ==
  /\ latestQueryRef = <<>>
  /\ inputValue = <<>>
  /\ isComposing = FALSE
  /\ debounced = <<>>
  /\ lastDistinct = <<>>
  /\ searchSequence = 0
  /\ currentQuery = <<>>
  /\ inner = <<>>
  /\ timers = <<>>
  /\ shownResults = NoResults
  /\ mounted = TRUE
  /\ streamAlive = TRUE
  /\ deliveredCount = [s \in 1..MaxSeq |-> 0]
  /\ loading = FALSE

(***************************************************************************)
(* The search service: engine, manager and the browser's signals           *)
(***************************************************************************)

vars == <<serviceVars, sessionVars, callVars, storageVars>>

LiveQueries == { Q_EMPTY, Q_BLANK, Q_ONE_PADDED, Q_AB }

Init ==
  /\ documents = InitialDocuments
  /\ fuse = initializeFuse(InitialDocuments)
  /\ isInitialized = FALSE
  /\ isInitializing = FALSE
  /\ initCalled = FALSE
  /\ builds = <<>>
  /\ staleBuilds = 0
  /\ lastBuild = <<>>
  /\ debouncePending = FALSE
  /\ inflight = <<>>
  /\ lastSearch = <<>>
  /\ lastGoodDocs = <<>>
  /\ SessionMounted
  /\ CallsIdle
  /\ StorageConstructed

Next ==
  \/ Initialize
  \/ BookmarkCreated
  \/ BookmarkRemoved
  \/ BookmarkChangedOrMoved
  \/ TabCreated
  \/ TabRemoved
  \/ \E changed \in BOOLEAN : TabUpdated(changed)
  \/ HistoryVisited
  \/ DebounceFire
  \/ VisitRemoved
  \/ IntervalTick
  \/ \E i \in 1..MaxBuilds, snapshot \in Snapshots : BuildComplete(i, snapshot)
  \/ \E i \in 1..MaxBuilds : BuildFail(i)
  \/ \E q \in LiveQueries : SearchStart(q, DEFAULT_LIMIT)
  \/ \E r \in Responses : SearchFinish(r)
  \/ SendResponse

Spec == Init /\ [][Next]_vars

(***************************************************************************)
(* Properties of the search service                                        *)
(***************************************************************************)

\* C2 (as stated): at most one index rebuild is in progress at any time; a
\* rebuild request that arrives while another rebuild runs starts no second
\* buildIndex call.
C2_AtMostOneRebuild == RunningBuilds <= 1

CompleteGenerations ==
  { BuildDocuments(s.bookmarks, s.tabs, s.history) : s \in Snapshots }

\* C4: wherever a search can execute, the compiled index was built from
\* exactly the current document list, and that list is a complete generation
\* (or the initial empty one), also while a rebuild is in progress.
C4_SearchSeesOneGeneration ==
  /\ fuse = documents
  /\ documents \in CompleteGenerations \cup {InitialDocuments}
  /\ isInitialized => documents \in CompleteGenerations

\* a search is waiting, a rebuild completed since it started and another
\* rebuild is in progress
C4_Witness ==
  /\ inflight # <<>>
  /\ inflight[1].rebuilt
  /\ inflight[1].local # <<>>
  /\ builds # <<>>
  /\ fuse # <<>>

\* the entries of a result list that come from the index
FromIndex(results) == SelectSeq(results, LAMBDA r : r.type # "suggestion")

\* C5 (as stated): search called before any buildIndex has succeeded returns
\* an empty list and does not throw.
C5_EmptyBeforeInit ==
  lastSearch # <<>> /\ ~lastSearch[1].initAtStart /\ ~lastSearch[1].rebuilt =>
    lastSearch[1].results = <<>> /\ ~lastSearch[1].threw

\* C5 (amended): search called before any buildIndex has succeeded, and not
\* overtaken by one, returns no tab, bookmark or history result (the list
\* holds remote suggestions only, or nothing) and does not throw.
C5_NoIndexResultBeforeInit ==
  lastSearch # <<>> /\ ~lastSearch[1].initAtStart /\ ~lastSearch[1].rebuilt =>
    FromIndex(lastSearch[1].results) = <<>> /\ ~lastSearch[1].threw

\* a search made before the first build returned suggestions
C5_Witness ==
  /\ lastSearch # <<>>
  /\ ~lastSearch[1].initAtStart
  /\ ~lastSearch[1].rebuilt
  /\ lastSearch[1].usedRemote
  /\ lastSearch[1].results # <<>>

\* C6: a query that is empty, blank or shorter than 2 characters after
\* trimming makes search return an empty list without touching the index or
\* the suggestion endpoint, whatever the engine state.
C6_ShortQueryRejected ==
  lastSearch # <<>> /\ Len(trim(lastSearch[1].query)) < 2 =>
    /\ lastSearch[1].results = <<>>
    /\ ~lastSearch[1].usedIndex
    /\ ~lastSearch[1].usedRemote
    /\ ~lastSearch[1].threw

\* a one-character query (after trimming) was rejected by an initialized
\* engine whose index holds documents
C6_Witness ==
  /\ lastSearch # <<>>
  /\ lastSearch[1].query = Q_ONE_PADDED
  /\ lastSearch[1].initAtStart
  /\ fuse # <<>>
  /\ lastSearch[1].results = <<>>

(***************************************************************************)
(* The ranking pipeline: search calls on an engine whose index is built    *)
(***************************************************************************)

\* what the three sources answered to the buildIndex call that built the index
RankIndexes ==
  { [bookmarks |-> <<FOLDER>> \o SameTitleBookmarks(n) \o other, tabs |-> t, history |-> <<>>] :
      n \in 0..MaxBookmarks, other \in {<<>>, <<OtherSiteBookmark(MaxBookmarks)>>},
      t \in {<<>>, <<TAB_AB>>} }
  \cup
  { [bookmarks |-> BookmarkNodes(n), tabs |-> t, history |-> h] :
      n \in (0..MaxLive) \cup {MaxBookmarks}, t \in TabLists, h \in HistoryLists }
  \cup
  { [bookmarks |-> <<FOLDER>>, tabs |-> t, history |-> HISTORY_LONG_TITLES] :
      t \in {<<>>, <<TAB_AB>>} }
  \cup
  { [bookmarks |-> <<FOLDER>>, tabs |-> <<TAB_INFIX>>, history |-> HISTORY_WORD] }

\* the limits a caller passes: explicit ones and the default
Limits == (1..MaxLimit) \cup {DEFAULT_LIMIT}

InitRank ==
  /\ \E index \in RankIndexes :
       /\ documents = BuildDocuments(index.bookmarks, index.tabs, index.history)
       /\ fuse = initializeFuse(BuildDocuments(index.bookmarks, index.tabs, index.history))
       /\ lastGoodDocs = BuildDocuments(index.bookmarks, index.tabs, index.history)
  /\ isInitialized = TRUE
  /\ isInitializing = FALSE
  /\ initCalled = TRUE
  /\ builds = <<>>
  /\ staleBuilds = 0
  /\ lastBuild = << [caller |-> "initialize", outcome |-> "resolved"] >>
  /\ debouncePending = FALSE
  /\ inflight = <<>>
  /\ lastSearch = <<>>
  /\ SessionMounted
  /\ CallsIdle
  /\ StorageConstructed

NextRank ==
  \/ \E q \in Queries, limit \in Limits : SearchStart(q, limit)
  \/ \E r \in Responses : SearchFinish(r)
  \/ SendResponse

SpecRank == InitRank /\ [][NextRank]_vars

(***************************************************************************)
(* Properties of the ranking pipeline                                      *)
(***************************************************************************)

\* positions of a result list
Positions(results) == 1..Len(results)

\* C7: no two results of one list returned by search share an id.
C7_NoDuplicateIds ==
  lastSearch # <<>> =>
    \A i, j \in Positions(lastSearch[1].results) :
      lastSearch[1].results[i].id = lastSearch[1].results[j].id => i = j

\* a returned list holds two suggestions beside a tab and a bookmark
C7_Witness ==
  /\ lastSearch # <<>>
  /\ Cardinality({i \in Positions(lastSearch[1].results) :
                    lastSearch[1].results[i].type = "suggestion"}) >= 2
  /\ \E i \in Positions(lastSearch[1].results) : lastSearch[1].results[i].type = "tab"
  /\ \E i \in Positions(lastSearch[1].results) : lastSearch[1].results[i].type = "bookmark"

\* the results of one type that lie in one domain
OfTypeInDomain(results, type, domain) ==
  {i \in Positions(results) :
     results[i].type = type /\ extractMainDomain(results[i].url) = domain}

\* the documents of the index the strategies of a call match, before dedup
Candidates(call) ==
  MergedResults(fuse, toLowerCase(trim(call.query)), VariantLimit(call.limit), clock)

\* C8: in a returned list no domain has more than 2 history results or more
\* than 3 bookmark results, each type counted on its own; no tab and no
\* suggestion is dropped by the domain caps (seen where the limit cuts
\* nothing: the default limit).
C8_DomainCaps ==
  lastSearch # <<>> =>
    LET call == lastSearch[1]
        results == call.results
    IN /\ \A i \in Positions(results) :
            /\ results[i].type = "history" =>
                 Cardinality(OfTypeInDomain(results, "history",
                                            extractMainDomain(results[i].url))) <= 2
            /\ results[i].type = "bookmark" =>
                 Cardinality(OfTypeInDomain(results, "bookmark",
                                            extractMainDomain(results[i].url))) <= 3
       /\ call.usedIndex /\ call.limit = DEFAULT_LIMIT =>
            LET candidates == Candidates(call)
            IN \A k \in Positions(candidates) :
                 candidates[k].type = "tab" =>
                   \E i \in Positions(results) : results[i].id = candidates[k].id
       /\ call.usedRemote /\ ~call.caught /\ call.limit = DEFAULT_LIMIT =>
            Cardinality({i \in Positions(results) : results[i].type = "suggestion"})
              = Cardinality({k \in Positions(call.remote) : call.remote[k] # trim(call.query)})

\* one list holds three bookmarks and a tab of one domain (the index has more
\* bookmarks of it), two history results of another domain (the index has
\* three), and two suggestions
C8_Witness ==
  /\ lastSearch # <<>>
  /\ \E i \in Positions(lastSearch[1].results) :
       /\ lastSearch[1].results[i].type = "tab"
       /\ Cardinality(OfTypeInDomain(lastSearch[1].results, "bookmark",
                                     extractMainDomain(lastSearch[1].results[i].url))) = 3
       /\ Cardinality(OfTypeInDomain(Candidates(lastSearch[1]), "bookmark",
                                     extractMainDomain(lastSearch[1].results[i].url))) > 3
  /\ \E i \in Positions(lastSearch[1].results) :
       /\ Cardinality(OfTypeInDomain(lastSearch[1].results, "history",
                                     extractMainDomain(lastSearch[1].results[i].url))) = 2
       /\ Cardinality(OfTypeInDomain(Candidates(lastSearch[1]), "history",
                                     extractMainDomain(lastSearch[1].results[i].url))) > 2
  /\ Cardinality({i \in Positions(lastSearch[1].results) :
                    lastSearch[1].results[i].type = "suggestion"}) >= 2

\* the matching documents of the whole index that survive both dedup passes
Survivors(call) ==
  deduplicateResults(MergedResults(fuse, toLowerCase(trim(call.query)), Len(fuse), clock))

\* C9 (as stated): the list is cut to the limit only after both dedup passes:
\* it never has more than `limit` entries, and has fewer only when fewer than
\* `limit` matching candidates survive dedup.
C9_TruncatedAfterDedup ==
  lastSearch # <<>> /\ lastSearch[1].usedIndex =>
    /\ Len(lastSearch[1].results) <= lastSearch[1].limit
    /\ Len(lastSearch[1].results) < lastSearch[1].limit =>
         Len(Survivors(lastSearch[1])) < lastSearch[1].limit

\* C10 (as stated): of two results of a returned list whose scores differ by
\* more than 10 points, the one with the higher score comes first.
C10_ScoreOrdersOutsideTieBand ==
  lastSearch # <<>> =>
    \A i, j \in Positions(lastSearch[1].results) :
      i < j => lastSearch[1].results[j].score <= lastSearch[1].results[i].score + 10

(***************************************************************************)
(* The query session as a system: the user types, the streams run          *)
(***************************************************************************)

\* what the user types into the input (InputReset empties it)
TypedQueries == { Q_EMPTY, Q_BLANK, Q_ONE, Q_AB, Q_TWO_WORDS, Q_PREFIX }

InitSession == Init

NextSession ==
  \/ \E q \in TypedQueries : PerformSearch(q)
  \/ CompositionStart
  \/ CompositionEnd
  \/ InputReset
  \/ ClearResults
  \/ DebounceElapsed
  \/ \E sequence \in 1..MaxSeq, ok \in BOOLEAN : SearchSettle(sequence, ok)
  \/ TimerFire
  \/ Unmount

SpecSession == InitSession /\ [][NextSession]_vars

(***************************************************************************)
(* Properties of the query session                                         *)
(***************************************************************************)

\* C1: every value the hook delivers (setResults(searchResults)) carries the
\* query that is the latest one at that moment, is the outcome of the search
\* that was started for that very query, is never the placeholder of a search
\* that was overtaken, and no search is delivered twice.
C1_OnlyLatestQueryDelivered ==
  /\ [](\A s \in 1..MaxSeq : deliveredCount[s] <= 1)
  /\ [][deliveredCount' # deliveredCount =>
         /\ shownResults' # NoResults
         /\ shownResults'[1].query = latestQueryRef'
         /\ shownResults'[1].of = shownResults'[1].query
         /\ shownResults'[1].kind # "stale"]_vars

\* three searches were in flight together, the first two settled after the
\* third had started, and the third one's results were delivered
C1_Witness ==
  /\ shownResults # NoResults
  /\ shownResults[1].sequence = 3
  /\ shownResults[1].kind = "results"
  /\ deliveredCount[3] = 1
  /\ inner[1].status = "overtaken" /\ inner[1].query # shownResults[1].query
  /\ inner[2].status = "overtaken" /\ inner[2].query # shownResults[1].query

(***************************************************************************)
(* Properties of the tie-break rules                                       *)
(***************************************************************************)

\* the query as the ranking sees it
QueryLower(call) == toLowerCase(trim(call.query))

ExactMatch(result, queryLower) == toLowerCase(result.title) = queryLower

StartsWithQuery(result, queryLower) == startsWith(toLowerCase(result.title), queryLower)

\* two results whose scores differ by less than the tie band
InTieBand(a, b) == Abs(a.score - b.score) < TIE_BAND

\* the type and history rules do not separate the two results
SameTypeAndVisits(a, b) ==
  /\ a.type = b.type
  /\ a.type = "history" => a.visitCount = b.visitCount /\ a.lastVisitTime = b.lastVisitTime

\* C11 (as stated): of two results of a returned list within the tie band, an
\* exact title match is never behind a result that is none; among results that
\* agree on that, one whose title starts with the query is never behind one
\* whose title does not; and when the type and history rules do not decide
\* either, the shorter title is never behind the longer one.
C11_TitleRulesInTieBand ==
  lastSearch # <<>> =>
    LET returned == lastSearch[1].results
        queryLower == QueryLower(lastSearch[1])
    IN \A i, j \in Positions(returned) :
         i < j /\ InTieBand(returned[i], returned[j]) =>
           LET first == returned[i]
               second == returned[j]
           IN /\ ~(ExactMatch(second, queryLower) /\ ~ExactMatch(first, queryLower))
              /\ ExactMatch(first, queryLower) = ExactMatch(second, queryLower) =>
                   /\ ~(StartsWithQuery(second, queryLower) /\ ~StartsWithQuery(first, queryLower))
                   /\ StartsWithQuery(first, queryLower) = StartsWithQuery(second, queryLower)
                        /\ SameTypeAndVisits(first, second) =>
                          Len(first.title) <= Len(second.title)

\* the priority order of the types: tab, bookmark, history, suggestion
TypePriority(type) ==
  CASE type = "tab" -> 0
    [] type = "bookmark" -> 1
    [] type = "history" -> 2
    [] OTHER -> 3

\* C12 (as stated): of two results of a returned list within the tie band
\* that agree on exact title match and on title-starts-with-query, the one
\* whose type comes earlier in tab, bookmark, history, suggestion is not behind
\* the other.
C12_TypePriorityInTieBand ==
  lastSearch # <<>> =>
    LET returned == lastSearch[1].results
        queryLower == QueryLower(lastSearch[1])
    IN \A i, j \in Positions(returned) :
         /\ i < j
         /\ InTieBand(returned[i], returned[j])
         /\ ExactMatch(returned[i], queryLower) = ExactMatch(returned[j], queryLower)
         /\ StartsWithQuery(returned[i], queryLower) = StartsWithQuery(returned[j], queryLower)
         => TypePriority(returned[i].type) <= TypePriority(returned[j].type)

(***************************************************************************)
(* Properties of the remote suggestions                                    *)
(***************************************************************************)

\* C13: in every returned list, every suggestion stands behind every tab,
\* bookmark and history result and has a strictly lower score.
C13_SuggestionsBelowDocuments ==
  lastSearch # <<>> =>
    LET returned == lastSearch[1].results
    IN \A i, j \in Positions(returned) :
         returned[i].type = "suggestion" /\ returned[j].type # "suggestion" =>
           j < i /\ returned[i].score < returned[j].score

\* a returned list holds a suggestion behind a document that matched the
\* query by its url only
C13_Witness ==
  /\ lastSearch # <<>>
  /\ \E i, j \in Positions(lastSearch[1].results) :
       /\ lastSearch[1].results[i].type = "suggestion"
       /\ lastSearch[1].results[j].type = "tab"
       /\ ~includes(toLowerCase(lastSearch[1].results[j].title), QueryLower(lastSearch[1]))

\* C14: when the suggestion endpoint fails, search returns the local results
\* ordered and cut as with an empty suggestion list, holds no suggestion, and
\* does not throw.
C14_RemoteFailureKeepsLocal ==
  lastSearch # <<>> /\ lastSearch[1].remoteFailed =>
    /\ ~lastSearch[1].threw
    /\ ~lastSearch[1].caught
    /\ lastSearch[1].results =
         MergeWithSuggestions(lastSearch[1].local, <<>>, trim(lastSearch[1].query),
                              lastSearch[1].limit)
    /\ \A i \in Positions(lastSearch[1].results) :
         lastSearch[1].results[i].type # "suggestion"

\* the endpoint failed and the search returned two local results
C14_Witness ==
  /\ lastSearch # <<>>
  /\ lastSearch[1].remoteFailed
  /\ Len(lastSearch[1].results) >= 2
  /\ lastSearch[1].results = lastSearch[1].local

(***************************************************************************)
(* Searches that meet a failure inside searchLocal                         *)
(***************************************************************************)

\* what can fail inside searchLocal: nothing, the fuse.search call of the
\* first variant, or the body as a whole
Faults == { "none", "variant", "index" }

\* searchLocal when a failure occurs: the catch inside the loop skips the
\* variant that threw, the outer catch returns []
searchLocalFaulty(initialized, fuseDocs, query, limit, now, fault) ==
  LET cleanQuery == toLowerCase(query) IN
  IF fault = "none" THEN searchLocal(initialized, fuseDocs, query, limit, now)
  ELSE IF ~initialized THEN { <<>> }
  ELSE IF Len(cleanQuery) < MIN_QUERY_LENGTH THEN { <<>> }
  ELSE IF fault = "index" THEN { <<>> }
  ELSE LET searchResults == RunStrategies(<<>>, Tail(Strategies(cleanQuery)), fuseDocs,
                                          cleanQuery, VariantLimit(limit), now)
           uniqueResults == deduplicateResults(searchResults)
       IN applySortingOptimization(uniqueResults, cleanQuery, limit, now)

\* search up to the await, with a failure inside searchLocal
SearchStartFaulty(query, limit, fault) ==
  /\ inflight = <<>>
  /\ lastSearch = <<>>
  /\ ~RejectedQuery(query)
  /\ \E local \in searchLocalFaulty(isInitialized, fuse, trim(query), limit, clock, fault) :
       inflight' = << [query |-> query, limit |-> limit, local |-> local,
                       usedIndex |-> isInitialized,
                       initAtStart |-> isInitialized,
                       afterBuild |-> lastBuild,
                       rebuilt |-> FALSE,
                       fault |-> fault] >>
  /\ lastSearch' = <<>>
  /\ UNCHANGED <<sessionVars, callVars, storageVars>>
  /\ UNCHANGED <<engineVars, managerVars, lastGoodDocs>>

\* search after the await, the failure persisting in the catch block's call
\* of searchLocal
SearchFinishFaulty(response) ==
  /\ inflight # <<>>
  /\ LET call == inflight[1]
         cleanQuery == trim(call.query)
         googleSuggestions == getGoogleSuggestions(cleanQuery, response)
         Returned(outcome, caught) ==
           << [query |-> call.query, limit |-> call.limit,
               results |-> outcome.results, local |-> call.local,
               remote |-> googleSuggestions,
               threw |-> outcome.threw, caught |-> caught,
               usedIndex |-> call.usedIndex, usedRemote |-> TRUE,
               remoteFailed |-> ~response.ok,
               initAtStart |-> call.initAtStart,
               afterBuild |-> call.afterBuild,
               rebuilt |-> call.rebuilt,
               fault |-> call.fault] >>
     IN IF PushThrows(googleSuggestions, cleanQuery)
        THEN \E fallback \in searchLocalFaulty(isInitialized, fuse, cleanQuery, call.limit,
                                               clock, call.fault) :
               lastSearch' = Returned(SearchCatch(fallback), TRUE)
        ELSE lastSearch' =
               Returned([threw |-> FALSE,
                         results |-> MergeWithSuggestions(call.local, googleSuggestions,
                                                          cleanQuery, call.limit)],
                        FALSE)
  /\ inflight' = <<>>
  /\ UNCHANGED <<sessionVars, callVars, storageVars>>
  /\ UNCHANGED <<engineVars, managerVars, lastGoodDocs>>

\* the indexes of the searches that meet failures: built or never built
FaultIndexes ==
  { [bookmarks |-> BookmarkNodes(n), tabs |-> t, history |-> h] :
      n \in 0..MaxLive, t \in {<<>>, <<TAB_AB>>}, h \in {<<>>, HISTORY_ONE_SITE} }

InitFaults ==
  /\ \/ \E index \in FaultIndexes :
          /\ documents = BuildDocuments(index.bookmarks, index.tabs, index.history)
          /\ fuse = initializeFuse(BuildDocuments(index.bookmarks, index.tabs, index.history))
          /\ lastGoodDocs = BuildDocuments(index.bookmarks, index.tabs, index.history)
          /\ isInitialized = TRUE
          /\ lastBuild = << [caller |-> "initialize", outcome |-> "resolved"] >>
     \/ /\ documents = InitialDocuments
        /\ fuse = InitialDocuments
        /\ lastGoodDocs = InitialDocuments
        /\ isInitialized = FALSE
        /\ lastBuild = << [caller |-> "initialize", outcome |-> "rejected"] >>
  /\ isInitializing = FALSE
  /\ initCalled = TRUE
  /\ builds = <<>>
  /\ staleBuilds = 0
  /\ debouncePending = FALSE
  /\ inflight = <<>>
  /\ lastSearch = <<>>
  /\ SessionMounted
  /\ CallsIdle
  /\ StorageConstructed

NextFaults ==
  \/ \E q \in Queries, limit \in Limits, fault \in Faults : SearchStartFaulty(q, limit, fault)
  \/ \E r \in Responses : SearchFinishFaulty(r)
  \/ SendResponse

SpecFaults == InitFaults /\ [][NextFaults]_vars

(***************************************************************************)
(* Properties of the error handling                                        *)
(***************************************************************************)

ResultTypes == { "tab", "bookmark", "history", "suggestion" }

\* C15: whatever fails (a variant, the index, the remote source, the merge of
\* the suggestions) and whether or not an index was ever built, search ends
\* with a list of results and never throws.
C15_SearchNeverThrows ==
  lastSearch # <<>> =>
    /\ ~lastSearch[1].threw
    /\ \A i \in Positions(lastSearch[1].results) :
         lastSearch[1].results[i].type \in ResultTypes
    /\ Len(lastSearch[1].results) <= lastSearch[1].limit

\* the merge of the suggestions threw while the index was failing as a whole:
\* the catch block answered with the empty list
C15_Witness ==
  /\ lastSearch # <<>>
  /\ lastSearch[1].fault = "index"
  /\ lastSearch[1].initAtStart
  /\ lastSearch[1].caught
  /\ ~lastSearch[1].threw
  /\ lastSearch[1].results = <<>>

(***************************************************************************)
(* Ranking scenarios: exact titles and recency                             *)
(***************************************************************************)

MaxRepeat == 14       \* occurrences of the query word in one title

Q_GITHUB == <<"G", "i", "t", "H", "u", "b">>
GITHUB_GUIDE == Q_GITHUB \o <<" ", "A", "c", "t", "i", "o", "n", "s", " ", "G", "u", "i", "d", "e">>

SITE_K == HTTPS \o <<"k", ".", "c", "o", "/", "1">>
SITE_M == HTTPS \o <<"m", ".", "c", "o", "/", "2">>

\* the title "ab ab ... ab" holding the word n times
RECURSIVE RepeatedTitle(_)
RepeatedTitle(n) ==
  IF n <= 1 THEN <<"a", "b">> ELSE <<"a", "b", " ">> \o RepeatedTitle(n - 1)

\* two pages of different sites
PagePair(firstTitle, secondTitle) ==
  << [id |-> 1, title |-> firstTitle, url |-> SITE_K],
     [id |-> 2, title |-> secondTitle, url |-> SITE_M] >>

\* the two pages as history items with the same visit count and visit time
VisitedPair(firstTitle, secondTitle) ==
  << HistoryItem(1, firstTitle, SITE_K, NOW - 2 * DAY, 3),
     HistoryItem(2, secondTitle, SITE_M, NOW - 2 * DAY, 3) >>

\* hours since the more recent of two visits that lie 10 days apart, both
\* inside the 30 days chrome.history.search is asked for
RecentAges == { 0, 10, DAY - 1, DAY, 100, 7 * DAY - 1, 7 * DAY, 200, 400, 20 * DAY - 1, 20 * DAY }

\* two visits with the same title and visit count, 10 days apart
RecencyPair(age, visitCount, recentFirst) ==
  LET recent == HistoryItem(1, <<"a", "b">>, SITE_K, NOW - age, visitCount)
      older == HistoryItem(2, <<"a", "b">>, SITE_M, NOW - age - 10 * DAY, visitCount)
  IN IF recentFirst THEN <<recent, older>> ELSE <<older, recent>>

TitlePairs ==
  { <<Q_GITHUB, GITHUB_GUIDE>>, <<GITHUB_GUIDE, Q_GITHUB>> }
  \cup { <<RepeatedTitle(1), RepeatedTitle(n)>> : n \in 2..MaxRepeat }

ScenarioIndexes ==
  { [bookmarks |-> PagePair(pair[1], pair[2]), tabs |-> <<>>, history |-> <<>>] :
      pair \in TitlePairs }
  \cup
  { [bookmarks |-> <<>>, tabs |-> PagePair(pair[1], pair[2]), history |-> <<>>] :
      pair \in TitlePairs }
  \cup
  { [bookmarks |-> <<>>, tabs |-> <<>>, history |-> VisitedPair(pair[1], pair[2])] :
      pair \in TitlePairs }
  \cup
  { [bookmarks |-> <<>>, tabs |-> t, history |-> RecencyPair(age, visitCount, recentFirst)] :
      t \in {<<>>, <<TAB_AB>>}, age \in RecentAges, visitCount \in {1, 3},
      recentFirst \in BOOLEAN }

ScenarioQueries == { Q_AB, Q_GITHUB }

InitScenarios ==
  /\ \E index \in ScenarioIndexes :
       /\ documents = BuildDocuments(index.bookmarks, index.tabs, index.history)
       /\ fuse = initializeFuse(BuildDocuments(index.bookmarks, index.tabs, index.history))
       /\ lastGoodDocs = BuildDocuments(index.bookmarks, index.tabs, index.history)
  /\ isInitialized = TRUE
  /\ isInitializing = FALSE
  /\ initCalled = TRUE
  /\ builds = <<>>
  /\ staleBuilds = 0
  /\ debouncePending = FALSE
  /\ lastBuild = << [caller |-> "initialize", outcome |-> "resolved"] >>
  /\ inflight = <<>>
  /\ lastSearch = <<>>
  /\ SessionMounted
  /\ CallsIdle
  /\ StorageConstructed

NextScenarios ==
  \/ \E q \in ScenarioQueries, limit \in Limits : SearchStart(q, limit)
  \/ \E r \in Responses : SearchFinish(r)
  \/ SendResponse

SpecScenarios == InitScenarios /\ [][NextScenarios]_vars

\* the title holds the query without being equal to it
MerelyContains(result, queryLower) ==
  /\ ~ExactMatch(result, queryLower)
  /\ includes(toLowerCase(result.title), queryLower)

\* C16 (as stated): in a returned list a result whose title equals the query
\* is never behind a result of the same type whose title merely starts with or
\* contains the query.
C16_ExactTitleOutranks ==
  lastSearch # <<>> =>
    LET returned == lastSearch[1].results
        queryLower == QueryLower(lastSearch[1])
    IN \A i, j \in Positions(returned) :
         /\ i < j
         /\ returned[i].type = returned[j].type
         /\ MerelyContains(returned[i], queryLower)
         => ~ExactMatch(returned[j], queryLower)

\* the scenario of C16: "GitHub" is returned first, "GitHub Actions Guide" second
C16_GitHubFirst ==
  (/\ lastSearch # <<>>
   /\ QueryLower(lastSearch[1]) = toLowerCase(Q_GITHUB)
   /\ Len(lastSearch[1].local) >= 2)
  => /\ lastSearch[1].results[1].title = Q_GITHUB
     /\ lastSearch[1].results[2].title = GITHUB_GUIDE

C16_GitHubWitness ==
  /\ lastSearch # <<>>
  /\ Len(lastSearch[1].results) >= 2
  /\ lastSearch[1].results[1].title = Q_GITHUB
  /\ lastSearch[1].results[2].title = GITHUB_GUIDE
  /\ documents[1].title = GITHUB_GUIDE

\* the url bonuses of calculateScore and applySortingOptimization treat the
\* two pages alike
SameUrlMatch(a, b, queryLower) ==
  /\ includes(toLowerCase(a.url), queryLower) = includes(toLowerCase(b.url), queryLower)
  /\ DomainIncludes(a.url, queryLower) = DomainIncludes(b.url, queryLower)

MaxLabels == 3        \* labels of a generated hostname

EXAMPLE == <<"e", "x", "a", "m", "p", "l", "e">>
SUB_EXAMPLE_CO_UK ==
  HTTPS \o <<"s", "u", "b", ".">> \o EXAMPLE \o <<".", "c", "o", ".", "u", "k", "/", "p", "a", "t", "h">>
EXAMPLE_CO_UK == EXAMPLE \o <<".", "c", "o", ".", "u", "k">>
NOT_A_URL == <<"n", "o", "t", " ", "a", " ", "u", "r", "l">>

HostLabels == { <<"a">>, <<"c", "o">>, <<"u", "k">>, <<"c", "o", "m">>, <<"S", "u", "B">> }

HostNames == UNION { { JoinDots(labels) : labels \in [1..k -> HostLabels] } : k \in 1..MaxLabels }

\* what extractMainDomain is called with: urls with and without a path, bare
\* hostnames, text that is no url
DomainInputs ==
  { HTTPS \o host \o path : host \in HostNames, path \in { <<>>, <<"/", "a", ".", "b">> } }
  \cup HostNames
  \cup { SUB_EXAMPLE_CO_UK, NOT_A_URL, <<>>, HTTPS,
         HTTPS \o <<"w", "w", "w", ".", "a", ".", "b", ".", "a", "c", ".", "u", "k", "/">> }

\* a call of extractMainDomain, and a second call on what it returned
ExtractMainDomainCall(url) ==
  /\ domainCall' = << [url |-> url,
                       domain |-> extractMainDomain(url),
                       again |-> extractMainDomain(extractMainDomain(url))] >>
  /\ UNCHANGED <<serviceVars, sessionVars, clock, previousSearch, lastTabUpdate, visitBurst, localCall, storageVars, clientVars>>

NextDomain == \E url \in DomainInputs : ExtractMainDomainCall(url)

SpecDomain == Init /\ [][NextDomain]_vars

\* the last k elements of a list, or all of it when it is shorter
LastLabels(labels, k) ==
  SubSeq(labels, IF Len(labels) > k THEN Len(labels) - k + 1 ELSE 1, Len(labels))

\* C18: extractMainDomain returns the last three labels of the hostname when
\* there are at least three and the second-to-last is a known second-level
\* suffix, otherwise the last two; it returns an input that does not parse
\* unchanged; and a second application returns the output of the first.
C18_MainDomain ==
  domainCall # <<>> =>
    LET call == domainCall[1]
        u == ParseURL(call.url)
        labels == splitDots(u.hostname)
        n == Len(labels)
    IN /\ ~u.ok => call.domain = call.url
       /\ u.ok =>
            call.domain =
              JoinDots(LastLabels(labels,
                                  IF n >= 3 /\ labels[n - 1] \in commonSecondLevelDomains
                                  THEN 3 ELSE 2))
       /\ call.url = SUB_EXAMPLE_CO_UK => call.domain = EXAMPLE_CO_UK
       /\ call.url = NOT_A_URL => call.domain = NOT_A_URL
       /\ call.again = call.domain

\* the example of the claim has been computed
C18_Witness ==
  /\ domainCall # <<>>
  /\ domainCall[1].url = SUB_EXAMPLE_CO_UK
  /\ domainCall[1].domain = EXAMPLE_CO_UK
  /\ domainCall[1].again = EXAMPLE_CO_UK

(***************************************************************************)
(* Repeated calls of search on one index generation                        *)
(***************************************************************************)

MaxTicks == 2         \* hours that pass while the calls are observed

\* a page visited 23 hours before NOW and a page of another site visited
\* three days before NOW, the second one twice
REPEAT_HISTORY ==
  << HistoryItem(1, <<"a", "b">>, SITE_K, NOW - (DAY - 1), 1),
     HistoryItem(2, <<"a", "b">>, SITE_M, NOW - 3 * DAY, 2) >>

RepeatIndexes ==
  { [bookmarks |-> <<>>, tabs |-> t, history |-> h] :
      t \in {<<>>, <<TAB_AB>>}, h \in {<<>>, REPEAT_HISTORY} }

InitRepeat ==
  /\ \E index \in RepeatIndexes :
       /\ documents = BuildDocuments(index.bookmarks, index.tabs, index.history)
       /\ fuse = initializeFuse(BuildDocuments(index.bookmarks, index.tabs, index.history))
       /\ lastGoodDocs = BuildDocuments(index.bookmarks, index.tabs, index.history)
  /\ isInitialized = TRUE
  /\ isInitializing = FALSE
  /\ initCalled = TRUE
  /\ builds = <<>>
  /\ staleBuilds = 0
  /\ debouncePending = FALSE
  /\ lastBuild = << [caller |-> "initialize", outcome |-> "resolved"] >>
  /\ inflight = <<>>
  /\ lastSearch = <<>>
  /\ SessionMounted
  /\ CallsIdle
  /\ StorageConstructed

\* time passes
ClockTick ==
  /\ clock < NOW + MaxTicks
  /\ clock' = clock + 1
  /\ UNCHANGED <<serviceVars, sessionVars, previousSearch, domainCall, lastTabUpdate, visitBurst, localCall, storageVars, clientVars>>

\* the caller keeps what the first call returned and is free to call again
KeepResult ==
  /\ previousSearch = <<>>
  /\ lastSearch # <<>>
  /\ previousSearch' = lastSearch
  /\ lastSearch' = <<>>
  /\ UNCHANGED <<engineVars, managerVars, inflight, lastGoodDocs, sessionVars, clock, domainCall, lastTabUpdate, visitBurst, localCall, storageVars, clientVars>>

NextRepeat ==
  \/ \E limit \in {1, DEFAULT_LIMIT} : SearchStart(Q_AB, limit)
  \/ \E r \in Responses : SearchFinish(r)
  \/ KeepResult
  \/ ClockTick

SpecRepeat == InitRepeat /\ [][NextRepeat]_vars

\* two calls with the same query and limit have returned
TwoCallsReturned ==
  /\ previousSearch # <<>>
  /\ lastSearch # <<>>
  /\ previousSearch[1].query = lastSearch[1].query
  /\ previousSearch[1].limit = lastSearch[1].limit

\* C19 (as stated): two calls of search with the same query on the same index
\* generation return the same results in the same order.
C19_RepeatedSearchSameResults ==
  TwoCallsReturned => previousSearch[1].results = lastSearch[1].results

\* the same, for two calls that were given the same suggestions
C19_SameSuggestionsSameResults ==
  (TwoCallsReturned /\ previousSearch[1].remote = lastSearch[1].remote)
  => previousSearch[1].results = lastSearch[1].results

(***************************************************************************)
(* Index generations and the ids of their documents                        *)
(***************************************************************************)

MaxVisits == 13       \* history items one snapshot holds

\* the id chrome.history gives the item at a position of its answer: the
\* same id for all, or ids whose digits continue those of a position
\* ("1-23" against "12-3")
VisitId(pattern, position) ==
  IF pattern = "digits" /\ position = 2 THEN 23 ELSE 3

\* n visits of n different sites, the most recent one first
Visits(n, pattern) ==
  [i \in 1..n |->
     HistoryItem(VisitId(pattern, i), <<"a", "b">>,
                 HTTPS \o Digits(i) \o <<".", "c", "o", "/">>, NOW - i, 1)]

\* what the sources answer: bookmarks and tabs numbered from 1 by the browser,
\* history items whose ids repeat
IdSnapshots ==
  { [bookmarks |-> <<FOLDER>> \o BookmarkNodes(b), tabs |-> t, history |-> Visits(n, pattern)] :
      b \in 0..2, t \in {<<>>, <<TAB_AB, TAB_UNTITLED>>},
      n \in {0, 2, MaxVisits}, pattern \in {"same", "digits"} }

\* five pages of one site, four of them visited in the same hour
HISTORY_SAME_HOUR ==
  [i \in 1..5 |->
     HistoryItem(20 + i, <<"a", "b">>, HTTPS \o <<"k", ".", "n", "e", "t", "/">> \o Digits(i),
                 IF i = 2 THEN 980 ELSE 990, 1)]

\* histories in which one registrable domain has more items than the cap,
\* answered in an order that is not the order of the visits
DomainHistories ==
  { HISTORY_ONE_SITE, HISTORY_SAME_HOUR,
    HISTORY_ODD \o HISTORY_THREE_SITES \o HISTORY_ONE_SITE }

DomainSnapshots ==
  { [bookmarks |-> <<FOLDER>>, tabs |-> <<>>, history |-> h] : h \in DomainHistories }

BuildSnapshots == IdSnapshots \cup DomainSnapshots

NextBuilds ==
  \/ Initialize
  \/ IntervalTick
  \/ \E i \in 1..MaxBuilds, snapshot \in BuildSnapshots : BuildComplete(i, snapshot)
  \/ \E i \in 1..MaxBuilds : BuildFail(i)

SpecBuilds == Init /\ [][NextBuilds]_vars

\* C20: no two documents of one index generation have the same id.
C20_UniqueDocumentIds ==
  \A i, j \in Positions(documents) : documents[i].id = documents[j].id => i = j

\* a generation that holds a bookmark and a tab with the same native id, and
\* the history ids "history-1-23" and "history-12-3" built from items whose
\* own ids repeat
C20_Witness ==
  /\ \E i, j \in Positions(documents) :
       /\ documents[i].id = <<"b", "o", "o", "k", "m", "a", "r", "k", "-", "1">>
       /\ documents[j].id = <<"t", "a", "b", "-", "1">>
  /\ \E i, j, k \in Positions(documents) :
       /\ documents[i].id = <<"h", "i", "s", "t", "o", "r", "y", "-", "1", "-", "2", "3">>
       /\ documents[j].id = <<"h", "i", "s", "t", "o", "r", "y", "-", "1", "2", "-", "3">>
       /\ documents[k].id = <<"h", "i", "s", "t", "o", "r", "y", "-", "0", "-", "3">>

(***************************************************************************)
(* RxStorage: debounced writes, the cache and the storage listener         *)
(***************************************************************************)

MaxCalls == 3         \* calls and foreign changes one storage instance sees

StoredValues == { "a", "b" }

\* RxStorage.updateCache: the entry of this.key; `valid` is what isCacheValid
\* answers for it
updateCache(data) == << [data |-> data, valid |-> TRUE] >>

\* the comparator given to distinctUntilChanged: TRUE suppresses curr
SameOperation(prev, curr) ==
  IF prev.type = "NULL" \/ curr.type = "NULL" THEN prev = curr
  ELSE /\ prev.type = curr.type
       /\ prev.value = curr.value
       /\ prev.timestamp = curr.timestamp

\* this.operationSubject.next(operation): through distinctUntilChanged into
\* debounceTime, as long as the pipeline is subscribed
EmitOperation(operation) ==
  /\ operationSubject' = operation
  /\ IF writeStream /\ ~SameOperation(operationSubject, operation)
     THEN debouncedOperation' = << operation >>
     ELSE UNCHANGED debouncedOperation

\* Date.now() of a call: the same millisecond as the call before, or a later one
CallTime(later) == storageNow + (IF later THEN 1 ELSE 0)

\* a call can share its millisecond with the call before only while the
\* debounce timer that call started has not fired
CanBeCalled(later) ==
  /\ callCount < MaxCalls
  /\ later \/ debouncedOperation # <<>> \/ ~writeStream

\* RxStorage.set
StorageSet(value, later) ==
  /\ CanBeCalled(later)
  /\ LET operation == [type |-> "SET", value |-> value, timestamp |-> CallTime(later)]
     IN /\ cache' = updateCache(value)
        /\ dataSubject' = value
        /\ EmitOperation(operation)
        /\ unwritten' = << operation >>
  /\ storageNow' = CallTime(later)
  /\ expectedValue' = << value >>
  /\ callCount' = callCount + 1
  /\ lastRead' = <<>>
  /\ UNCHANGED <<writeStream, pendingWrites, storageArea, changeEvents, loadingInitial>>
  /\ UNCHANGED <<serviceVars, sessionVars, callVars>>

\* RxStorage.delete
StorageDelete(later) ==
  /\ CanBeCalled(later)
  /\ LET operation == [type |-> "DELETE", value |-> UNDEFINED, timestamp |-> CallTime(later)]
     IN /\ cache' = <<>>
        /\ dataSubject' = DEFAULT_VALUE
        /\ EmitOperation(operation)
        /\ unwritten' = << operation >>
  /\ storageNow' = CallTime(later)
  /\ expectedValue' = <<>>
  /\ callCount' = callCount + 1
  /\ lastRead' = <<>>
  /\ UNCHANGED <<writeStream, pendingWrites, storageArea, changeEvents, loadingInitial>>
  /\ UNCHANGED <<serviceVars, sessionVars, callVars>>

\* RxStorage.clear
StorageClear(later) ==
  /\ CanBeCalled(later)
  /\ LET operation == [type |-> "CLEAR", value |-> UNDEFINED, timestamp |-> CallTime(later)]
     IN /\ cache' = <<>>
        /\ dataSubject' = DEFAULT_VALUE
        /\ EmitOperation(operation)
        /\ unwritten' = << operation >>
  /\ storageNow' = CallTime(later)
  /\ expectedValue' = <<>>
  /\ callCount' = callCount + 1
  /\ lastRead' = <<>>
  /\ UNCHANGED <<writeStream, pendingWrites, storageArea, changeEvents, loadingInitial>>
  /\ UNCHANGED <<serviceVars, sessionVars, callVars>>

\* switchMap unsubscribes from the inner observable it had
Unsubscribed(writes) == [k \in 1..Len(writes) |-> [writes[k] EXCEPT !.current = FALSE]]

\* the debounce time has elapsed: switchMap runs executeStorageOperation on
\* the held operation, whose execute() calls the storage area at once
StorageDebounceFire ==
  /\ debouncedOperation # <<>>
  /\ LET operation == debouncedOperation[1]
     IN /\ pendingWrites' =
             IF operation.type = "NULL" THEN Unsubscribed(pendingWrites)
             ELSE Append(Unsubscribed(pendingWrites),
                         [operation |-> operation, applied |-> FALSE, current |-> TRUE])
        /\ unwritten' = IF unwritten = << operation >> THEN <<>> ELSE unwritten
  /\ debouncedOperation' = <<>>
  /\ lastRead' = <<>>
  /\ UNCHANGED <<cache, dataSubject, operationSubject, writeStream, storageArea, changeEvents,
                 loadingInitial, storageNow, callCount, expectedValue>>
  /\ UNCHANGED <<serviceVars, sessionVars, callVars>>

\* what an operation leaves under this.key
ValueWritten(operation) == IF operation.type = "SET" THEN operation.value ELSE UNDEFINED

\* the position of the first write the browser has not performed yet (0: none)
FirstUnapplied(writes) ==
  IF \E k \in 1..Len(writes) : ~writes[k].applied
  THEN CHOOSE k \in 1..Len(writes) :
         ~writes[k].applied /\ \A m \in 1..(k - 1) : writes[m].applied
  ELSE 0

\* the browser performs the oldest write it holds and queues onChanged when
\* the stored value changes
StorageApplyWrite ==
  /\ FirstUnapplied(pendingWrites) # 0
  /\ LET k == FirstUnapplied(pendingWrites)
         newValue == ValueWritten(pendingWrites[k].operation)
     IN /\ storageArea' = newValue
        /\ pendingWrites' = [pendingWrites EXCEPT ![k].applied = TRUE]
        /\ changeEvents' = IF newValue # storageArea
                           THEN Append(changeEvents, [newValue |-> newValue, own |-> TRUE])
                           ELSE changeEvents
  /\ lastRead' = <<>>
  /\ UNCHANGED <<cache, dataSubject, operationSubject, debouncedOperation, writeStream,
                 loadingInitial, storageNow, callCount, expectedValue, unwritten>>
  /\ UNCHANGED <<serviceVars, sessionVars, callVars>>

\* the await of executeStorageOperation returns: the cache is set from the
\* operation, whether or not switchMap still listens to this call
StorageWriteResolve ==
  /\ pendingWrites # <<>>
  /\ pendingWrites[1].applied
  /\ cache' = IF pendingWrites[1].operation.type = "SET"
              THEN updateCache(pendingWrites[1].operation.value)
              ELSE <<>>
  /\ pendingWrites' = Tail(pendingWrites)
  /\ lastRead' = <<>>
  /\ UNCHANGED <<dataSubject, operationSubject, debouncedOperation, writeStream, storageArea,
                 changeEvents, loadingInitial, storageNow, callCount, expectedValue, unwritten>>
  /\ UNCHANGED <<serviceVars, sessionVars, callVars>>

\* the storage area rejects the call (quota, context gone): observer.error;
\* when switchMap still listens, catchError replaces the whole pipeline by
\* of(null), which completes, and the debounce timer is torn down
StorageWriteReject ==
  /\ pendingWrites # <<>>
  /\ ~pendingWrites[1].applied
  /\ pendingWrites' = Tail(pendingWrites)
  /\ IF pendingWrites[1].current /\ writeStream
     THEN /\ writeStream' = FALSE
          /\ debouncedOperation' = <<>>
     ELSE UNCHANGED <<writeStream, debouncedOperation>>
  /\ lastRead' = <<>>
  /\ UNCHANGED <<cache, dataSubject, operationSubject, storageArea, changeEvents,
                 loadingInitial, storageNow, callCount, expectedValue, unwritten>>
  /\ UNCHANGED <<serviceVars, sessionVars, callVars>>

\* the listener of chrome.storage.onChanged runs for the oldest event
StorageChanged ==
  /\ changeEvents # <<>>
  /\ LET newValue == changeEvents[1].newValue
     IN IF newValue # UNDEFINED
        THEN /\ cache' = updateCache(newValue)
             /\ dataSubject' = newValue
        ELSE /\ cache' = <<>>
             /\ dataSubject' = DEFAULT_VALUE
  /\ changeEvents' = Tail(changeEvents)
  /\ expectedValue' = IF changeEvents[1].own THEN expectedValue ELSE <<>>
  /\ lastRead' = <<>>
  /\ UNCHANGED <<operationSubject, debouncedOperation, writeStream, pendingWrites, storageArea,
                 loadingInitial, storageNow, callCount, unwritten>>
  /\ UNCHANGED <<serviceVars, sessionVars, callVars>>

\* another context changes the value of the key
StorageForeignChange(value) ==
  /\ callCount < MaxCalls
  /\ value # storageArea
  /\ storageArea' = value
  /\ changeEvents' = Append(changeEvents, [newValue |-> value, own |-> FALSE])
  /\ expectedValue' = <<>>
  /\ callCount' = callCount + 1
  /\ lastRead' = <<>>
  /\ UNCHANGED <<cache, dataSubject, operationSubject, debouncedOperation, writeStream,
                 pendingWrites, loadingInitial, storageNow, unwritten>>
  /\ UNCHANGED <<serviceVars, sessionVars, callVars>>

\* loadInitialData: the get of the constructor answers, or fails
StorageLoadInitial(ok) ==
  /\ loadingInitial
  /\ loadingInitial' = FALSE
  /\ IF ok /\ storageArea # UNDEFINED
     THEN /\ cache' = updateCache(storageArea)
          /\ dataSubject' = storageArea
     ELSE /\ dataSubject' = DEFAULT_VALUE
          /\ UNCHANGED cache
  /\ lastRead' = <<>>
  /\ UNCHANGED <<operationSubject, debouncedOperation, writeStream, pendingWrites, storageArea,
                 changeEvents, storageNow, callCount, expectedValue, unwritten>>
  /\ UNCHANGED <<serviceVars, sessionVars, callVars>>

\* the cache entry is valid: present and younger than cacheExpiry
CacheHit == cache # <<>> /\ cache[1].valid

\* RxStorage.get to its answer, together with getValue
StorageGet ==
  /\ lastRead = <<>>
  /\ LET value == IF CacheHit THEN cache[1].data
                  ELSE IF storageArea # UNDEFINED THEN storageArea ELSE DEFAULT_VALUE
     IN lastRead' = << [get |-> value, getValue |-> dataSubject] >>
  /\ cache' = IF ~CacheHit /\ storageArea # UNDEFINED THEN updateCache(storageArea) ELSE cache
  /\ UNCHANGED <<dataSubject, operationSubject, debouncedOperation, writeStream, pendingWrites,
                 storageArea, changeEvents, loadingInitial, storageNow, callCount,
                 expectedValue, unwritten>>
  /\ UNCHANGED <<serviceVars, sessionVars, callVars>>

\* RxStorage.refresh to its answer
StorageRefresh ==
  /\ callCount < MaxCalls
  /\ IF storageArea # UNDEFINED
     THEN /\ cache' = updateCache(storageArea)
          /\ dataSubject' = storageArea
     ELSE /\ dataSubject' = DEFAULT_VALUE
          /\ UNCHANGED cache
  /\ callCount' = callCount + 1
  /\ lastRead' = <<>>
  /\ UNCHANGED <<operationSubject, debouncedOperation, writeStream, pendingWrites, storageArea,
                 changeEvents, loadingInitial, storageNow, expectedValue, unwritten>>
  /\ UNCHANGED <<serviceVars, sessionVars, callVars>>

\* cacheExpiry (5 minutes) has passed since the entry was written; the
\* debounce timer (500 ms) has fired long before
StorageCacheExpire ==
  /\ CacheHit
  /\ debouncedOperation = <<>>
  /\ cache' = << [cache[1] EXCEPT !.valid = FALSE] >>
  /\ lastRead' = <<>>
  /\ UNCHANGED <<dataSubject, operationSubject, debouncedOperation, writeStream, pendingWrites,
                 storageArea, changeEvents, loadingInitial, storageNow, callCount, expectedValue,
                 unwritten>>
  /\ UNCHANGED <<serviceVars, sessionVars, callVars>>

InitStorage ==
  /\ documents = InitialDocuments
  /\ fuse = initializeFuse(InitialDocuments)
  /\ isInitialized = FALSE
  /\ isInitializing = FALSE
  /\ initCalled = FALSE
  /\ builds = <<>>
  /\ staleBuilds = 0
  /\ lastBuild = <<>>
  /\ debouncePending = FALSE
  /\ inflight = <<>>
  /\ lastSearch = <<>>
  /\ lastGoodDocs = <<>>
  /\ SessionMounted
  /\ CallsIdle
  /\ \E stored \in InitialStored : StorageConstructedOn(stored)

NextStorage ==
  \/ \E value \in StoredValues, later \in BOOLEAN : StorageSet(value, later)
  \/ \E later \in BOOLEAN : StorageDelete(later)
  \/ \E later \in BOOLEAN : StorageClear(later)
  \/ StorageDebounceFire
  \/ StorageApplyWrite
  \/ StorageWriteResolve
  \/ StorageWriteReject
  \/ StorageChanged
  \/ \E value \in StoredValues \cup {UNDEFINED} : StorageForeignChange(value)
  \/ \E ok \in BOOLEAN : StorageLoadInitial(ok)
  \/ StorageGet
  \/ StorageRefresh
  \/ StorageCacheExpire

SpecStorage == InitStorage /\ [][NextStorage]_vars

\* C21 (as stated): the latest set, delete or clear that has not been passed
\* to the storage area is the one operation the debounce timer holds, and
\* when the timer fires exactly that operation, and no other, is passed on.
C21_OneWriteOfLastOperation ==
  /\ [](unwritten # <<>> => debouncedOperation = unwritten)
  /\ [][Len(pendingWrites') > Len(pendingWrites) =>
          /\ Len(pendingWrites') = Len(pendingWrites) + 1
          /\ unwritten = << pendingWrites'[Len(pendingWrites')].operation >>
          /\ unwritten' = <<>>]_vars

\* the same while the pipeline of setupDebouncedWrite is subscribed
C21_WhileSubscribed ==
  /\ []((writeStream /\ unwritten # <<>>) => debouncedOperation = unwritten)
  /\ [][Len(pendingWrites') > Len(pendingWrites) =>
          /\ Len(pendingWrites') = Len(pendingWrites) + 1
          /\ unwritten = << pendingWrites'[Len(pendingWrites')].operation >>
          /\ unwritten' = <<>>]_vars

\* C22 (as stated): a read made after set(v), with no set, delete, clear or
\* change by another context since, returns v from get() and from getValue().
C22_ReadsReturnLatestSet ==
  (lastRead # <<>> /\ expectedValue # <<>>)
  => /\ lastRead[1].get = expectedValue[1]
     /\ lastRead[1].getValue = expectedValue[1]

(***************************************************************************)
(* Properties of the debounce timer and the sequence numbers               *)
(***************************************************************************)

\* the step is a call of searchManager.search(query) made by the hook, from
\* performSearch or from handleCompositionEndWrapper
SearchCalled(query) ==
  \/ /\ PerformSearch(query)
     /\ ~isComposing
     /\ trim(query) # <<>>
     /\ Len(query) >= minQueryLength
  \/ /\ CompositionEnd
     /\ inputValue = query
     /\ Len(query) >= minQueryLength

\* the step promotes a query to a search
Promoted == searchSequence' # searchSequence

\* C23 (the part that holds): the query promoted is the one the timer holds
\* when it fires, and it gets the next, strictly greater, sequence number.
C23_PromotedWithNextSequence ==
  [][Promoted =>
       /\ debounced # <<>>
       /\ currentQuery' = debounced[1]
       /\ debounced' = <<>>
       /\ searchSequence' = searchSequence + 1
       /\ Len(inner') = searchSequence'
       /\ inner'[searchSequence'].query \in { debounced[1], <<>> }]_vars

\* C23 (as stated): every query passed to the session restarts the debounce
\* timer, so that the timer holds the query passed last; the query promoted
\* is the one the timer holds, with a strictly greater sequence number.
C23_TimerHoldsLastQuery ==
  /\ [][\A q \in TypedQueries : SearchCalled(q) => debounced' = <<q>>]_vars
  /\ [][Promoted => /\ debounced # <<>>
                    /\ currentQuery' = debounced[1]
                    /\ searchSequence' > searchSequence]_vars

(***************************************************************************)
(* Properties of IME composition                                           *)
(***************************************************************************)

\* C24 (the part that holds): while a composition is in progress no query is
\* passed to the search manager, and the end of a composition passes the
\* final value on when it has the minimum length (the manager then starts the
\* timer unless the value is the query promoted last).
C24_ComposingPassesNothingEndSubmits ==
  /\ [][(isComposing /\ isComposing') => debounced' \in { debounced, <<>> }]_vars
  /\ [][(isComposing /\ ~isComposing' /\ Len(inputValue) >= minQueryLength
           /\ inputValue # currentQuery)
        => debounced' = <<inputValue>>]_vars

\* C24 (as stated): while a composition is in progress no search is started,
\* not even one whose timer was pending when the composition began; the end
\* of a composition submits the final value when it has the minimum length.
C24_NoSearchWhileComposing ==
  /\ [][isComposing => ~Promoted]_vars
  /\ [][(isComposing /\ ~isComposing' /\ Len(inputValue) >= minQueryLength
           /\ inputValue # currentQuery)
        => debounced' = <<inputValue>>]_vars

(***************************************************************************)
(* Properties of the empty query                                           *)
(***************************************************************************)

\* the Idle state of a session: nothing displayed, nothing awaited
Idle == shownResults = NoResults /\ ~loading

\* C25 (the part that holds): outside a composition an empty query brings the
\* session to Idle from any state, and it stays Idle while the input and the
\* query reference stay empty.
C25_EmptyQueryOutsideComposition ==
  /\ [][(PerformSearch(Q_EMPTY) /\ ~isComposing) => Idle']_vars
  /\ []((latestQueryRef = Q_EMPTY /\ inputValue = Q_EMPTY /\ ~isComposing) => Idle)

\* C25 (as stated): an empty query brings the session to Idle from any state,
\* and it stays Idle while the input and the query reference stay empty.
C25_EmptyQueryBringsIdle ==
  /\ [][PerformSearch(Q_EMPTY) => Idle']_vars
  /\ []((latestQueryRef = Q_EMPTY /\ inputValue = Q_EMPTY) => Idle)

(***************************************************************************)
(* Properties of the browser signals                                       *)
(***************************************************************************)

\* the step calls refreshIndex once: a rebuild request, which starts a build
\* unless initialize is running
RequestIssued ==
  IF isInitializing
  THEN builds' = builds
  ELSE builds' = Append(builds, "refreshIndex")

\* C26: every onVisited signal not answered yet has the timer armed and has
\* caused no rebuild request itself; the timer's firing answers all signals
\* of the burst with exactly one rebuild request.
C26_OneRebuildPerBurst ==
  /\ [](visitBurst.waiting > 0 <=> debouncePending)
  /\ [][visitBurst'.waiting > visitBurst.waiting =>
          /\ builds' = builds
          /\ debouncePending']_vars
  /\ [][visitBurst'.waiting < visitBurst.waiting =>
          /\ visitBurst' = [waiting |-> 0, answered |-> visitBurst.waiting]
          /\ ~debouncePending'
          /\ RequestIssued]_vars

\* a burst of several onVisited signals has been answered by one request,
\* whose build is in flight
C26_Witness ==
  /\ visitBurst.answered >= 2
  /\ visitBurst.waiting = 0
  /\ builds = << "refreshIndex" >>

\* the step is one of the signals whose listener calls refreshIndex at once
ImmediateSignal ==
  \/ BookmarkCreated
  \/ BookmarkRemoved
  \/ BookmarkChangedOrMoved
  \/ TabCreated
  \/ TabRemoved
  \/ VisitRemoved
  \/ TabUpdated(TRUE)

\* C27: a bookmark, tab-created, tab-removed or visit-removed signal, and a
\* tab-updated signal that changes the title or the url, issues a rebuild
\* request in the step that handles it; a tab-updated signal that changes
\* neither issues none and leaves the engine and the manager as they were.
C27_SignalsRequestAtOnce ==
  /\ [][ImmediateSignal => RequestIssued]_vars
  /\ [][(lastTabUpdate' = << TRUE >> /\ lastTabUpdate' # lastTabUpdate) => RequestIssued]_vars
  /\ [][TabUpdated(FALSE) => UNCHANGED <<engineVars, managerVars>>]_vars
  /\ [][(lastTabUpdate' = << FALSE >> /\ lastTabUpdate' # lastTabUpdate)
        => UNCHANGED <<engineVars, managerVars>>]_vars

\* a tab-updated signal without a change of title or url has been handled
\* with an index in place, and no build was started
C27_Witness ==
  /\ lastTabUpdate = << FALSE >>
  /\ isInitialized
  /\ documents # <<>>
  /\ builds = <<>>
  /\ ~debouncePending

(***************************************************************************)
(* searchLocal calls observed one at a time: the variants planned, the     *)
(* variant that throws (if any) and the merged map                         *)
(***************************************************************************)

MaxWords == 3         \* words of one planned query

\* the words queries are made of: one, two and three characters long
PlanWords == { <<"a">>, <<"a", "b">>, <<"c", "A", "b">> }

ONE_SPACE == <<" ">>
TWO_SPACES == <<" ", " ">>

RECURSIVE JoinWords(_, _)
JoinWords(words, separator) ==
  IF Len(words) = 1 THEN words[1]
  ELSE words[1] \o separator \o JoinWords(Tail(words), separator)

\* the trimmed queries search hands to searchLocal
PlanQueries ==
  { JoinWords(words, ONE_SPACE) :
      words \in UNION { [1..n -> PlanWords] : n \in 1..MaxWords } }
  \cup { JoinWords(words, TWO_SPACES) : words \in [1..2 -> PlanWords] }

\* a variant throw that is caught inside the loop: the loop goes on with the
\* remaining variants; a catch around the loop would end it
AfterStrategyErrorEndLoop(remaining) == <<>>

AfterStrategyError(remaining) == remaining

\* the loop over searchStrategies when fuse.search of the variant at position
\* `failing` throws (0: none does)
RECURSIVE RunStrategiesCatching(_, _, _, _, _, _, _, _)
RunStrategiesCatching(allResults, strategies, position, failing, fuseDocs, cleanQuery, variantLimit, now) ==
  IF strategies = <<>> THEN allResults
  ELSE IF position = failing
       THEN RunStrategiesCatching(allResults, AfterStrategyError(Tail(strategies)),
                                  position + 1, failing, fuseDocs, cleanQuery,
                                  variantLimit, now)
       ELSE LET strategy == Head(strategies)
                fuseResults == FuseSearch(fuseDocs, strategy.query, variantLimit)
            IN RunStrategiesCatching(
                 MergeHits(allResults, fuseResults, cleanQuery, strategy.boost, now),
                 Tail(strategies), position + 1, failing, fuseDocs, cleanQuery,
                 variantLimit, now)

\* searchLocal(query, limit) on a built index, with the variant at position
\* `failing` throwing; one call is observed per behaviour
SearchLocalCall(query, limit, failing) ==
  /\ isInitialized
  /\ localCall = <<>>
  /\ LET cleanQuery == toLowerCase(query)
         strategies == IF Len(cleanQuery) < MIN_QUERY_LENGTH
                       THEN <<>>
                       ELSE Strategies(cleanQuery)
         merged == RunStrategiesCatching(<<>>, strategies, 1, failing, fuse, cleanQuery,
                                         VariantLimit(limit), clock)
     IN /\ failing <= Len(strategies)
        /\ localCall' = << [query |-> query, cleanQuery |-> cleanQuery, limit |-> limit,
                            failing |-> failing,
                            strategies |-> strategies,
                            merged |-> merged,
                            unique |-> deduplicateResults(merged),
                            results |-> applySortingOptimization(deduplicateResults(merged),
                                                                 cleanQuery, limit, clock)] >>
  /\ UNCHANGED <<serviceVars, sessionVars, clock, previousSearch, domainCall,
                 lastTabUpdate, visitBurst, storageVars, clientVars>>

\* the indexes the observed calls run on
VariantIndexes ==
  { [bookmarks |-> BookmarkNodes(n), tabs |-> t,
     history |-> IF n = 0 THEN HISTORY_ONE_SITE ELSE <<>>] :
      n \in {0, 4}, t \in {<<>>, <<TAB_AB, TAB_UNTITLED>>} }

VariantLimits == { 1, MaxLimit }

\* the most variants a planned query has: two per word and the two whole-query ones
MaxVariants == 2 * MaxWords + 2

InitVariants ==
  /\ \E index \in VariantIndexes :
       /\ documents = BuildDocuments(index.bookmarks, index.tabs, index.history)
       /\ fuse = initializeFuse(BuildDocuments(index.bookmarks, index.tabs, index.history))
       /\ lastGoodDocs = BuildDocuments(index.bookmarks, index.tabs, index.history)
  /\ isInitialized = TRUE
  /\ isInitializing = FALSE
  /\ initCalled = TRUE
  /\ builds = <<>>
  /\ staleBuilds = 0
  /\ lastBuild = << [caller |-> "initialize", outcome |-> "resolved"] >>
  /\ debouncePending = FALSE
  /\ inflight = <<>>
  /\ lastSearch = <<>>
  /\ SessionMounted
  /\ CallsIdle
  /\ StorageConstructed

NextVariants ==
  \E q \in PlanQueries, limit \in VariantLimits, failing \in 0..MaxVariants :
    SearchLocalCall(q, limit, failing)

SpecVariants == InitVariants /\ [][NextVariants]_vars

(***************************************************************************)
(* Properties of the query variants                                        *)
(***************************************************************************)

\* the whitespace-delimited words of q that have at least n characters
WordsOfLength(q, n) ==
  LET words == splitWhitespace(q)
      long == { i \in 1..Len(words) : Len(words[i]) >= n }
      Nth(k) == CHOOSE i \in long : Cardinality({ j \in long : j < i }) = k - 1
  IN [k \in 1..Cardinality(long) |-> words[Nth(k)]]

\* C28: the variants planned for the trimmed, lower-cased query q are, in
\* this order: ="q" with boost 100, q with boost 80, each word of at least two
\* characters with boost 60, and ^word with boost 70 for each word of at least
\* three characters; there are no others.
C28_PlannedVariants ==
  (localCall # <<>> /\ Len(localCall[1].cleanQuery) >= 2) =>
    LET q == localCall[1].cleanQuery
        planned == localCall[1].strategies
        words == WordsOfLength(q, 2)
        prefixes == WordsOfLength(q, 3)
    IN /\ q = toLowerCase(trim(localCall[1].query))
       /\ Len(planned) = 2 + Len(words) + Len(prefixes)
       /\ planned[1].query = <<"=", "\"">> \o q \o <<"\"">> /\ planned[1].boost = 100
       /\ planned[2].query = q /\ planned[2].boost = 80
       /\ \A i \in 1..Len(words) :
            planned[2 + i].query = words[i] /\ planned[2 + i].boost = 60
       /\ \A i \in 1..Len(prefixes) :
            /\ planned[2 + Len(words) + i].query = <<"^">> \o prefixes[i]
            /\ planned[2 + Len(words) + i].boost = 70

\* a query of a one-character, a two-character and a three-character word has
\* been planned: five variants
C28_Witness ==
  /\ localCall # <<>>
  /\ localCall[1].query = <<"a", " ", "a", "b", " ", "c", "A", "b">>
  /\ Len(localCall[1].strategies) = 5
  /\ localCall[1].strategies[5].query = <<"^", "c", "a", "b">>

\* the hits of the k-th variant of a call
VariantHits(call, k) ==
  FuseSearch(fuse, call.strategies[k].query, VariantLimit(call.limit))

\* the final score the k-th variant gives the document id, if it hits it:
\* custom score times boost plus the engine's contribution
VariantScore(call, k, id) ==
  LET hits == VariantHits(call, k) IN
  { calculateScore(call.cleanQuery, hits[j].item, call.strategies[k].boost, clock)
      + (100 - hits[j].score) :
      j \in { n \in 1..Len(hits) : hits[n].item.id = id } }

VariantScores(call, id) ==
  UNION { VariantScore(call, k, id) : k \in 1..Len(call.strategies) }

\* the ids hit by at least one variant
HitIds(call) ==
  UNION { { VariantHits(call, k)[j].item.id : j \in 1..Len(VariantHits(call, k)) } :
            k \in 1..Len(call.strategies) }

Highest(scores) == CHOOSE s \in scores : \A other \in scores : other <= s

\* the entries of a merged map, whatever their position
Entries(merged) == { merged[i] : i \in 1..Len(merged) }

\* every order of up to MaxPermuted variants; for longer lists the reversal
\* and the exchanges of two neighbours
MaxPermuted == 4

VariantOrders(n) ==
  IF n <= MaxPermuted
  THEN Permutations(1..n)
  ELSE { [i \in 1..n |-> n + 1 - i] }
       \cup { [i \in 1..n |-> IF i = k THEN k + 1 ELSE IF i = k + 1 THEN k ELSE i] :
                k \in 1..(n - 1) }

\* C29: the merged map holds each document hit by a variant once, with the
\* highest of the final scores the variants give it, and the same entries
\* come out when the variants run in another order.
C29_MergedCarriesHighestScore ==
  (localCall # <<>> /\ localCall[1].failing = 0) =>
    LET call == localCall[1] IN
    /\ { call.merged[i].id : i \in 1..Len(call.merged) } = HitIds(call)
    /\ Cardinality(HitIds(call)) = Len(call.merged)
    /\ \A i \in 1..Len(call.merged) :
         call.merged[i].score = Highest(VariantScores(call, call.merged[i].id))
    /\ \A order \in VariantOrders(Len(call.strategies)) :
         Entries(RunStrategies(<<>>, Permute(call.strategies, order), fuse, call.cleanQuery,
                               VariantLimit(call.limit), clock))
           = Entries(call.merged)

\* a document was hit by variants that give it three different scores, and
\* the variant that ran last on it did not give the highest
C29_Witness ==
  /\ localCall # <<>>
  /\ localCall[1].failing = 0
  /\ \E i \in 1..Len(localCall[1].merged) :
       LET call == localCall[1]
           id == call.merged[i].id
           hitting == { k \in 1..Len(call.strategies) : VariantScore(call, k, id) # {} }
           last == CHOOSE k \in hitting : \A other \in hitting : other <= k
       IN /\ Cardinality(VariantScores(call, id)) >= 3
          /\ \A s \in VariantScore(call, last, id) : s < call.merged[i].score

\* C30: when the variant at one position throws, the merged map, and with it
\* the result of searchLocal, is the one the other variants give when they
\* alone are run, in their order.
C30_FailedVariantSkipped ==
  (localCall # <<>> /\ localCall[1].failing > 0) =>
    LET call == localCall[1]
        others == RemoveAt(call.strategies, call.failing)
        merged == RunStrategies(<<>>, others, fuse, call.cleanQuery,
                                VariantLimit(call.limit), clock)
    IN /\ call.merged = merged
       /\ call.results = applySortingOptimization(deduplicateResults(merged),
                                                  call.cleanQuery, call.limit, clock)

\* the exact-phrase variant threw on a query of several variants: the later
\* variants were run, and their merged map differs from the one of a call
\* without a failure
C30_Witness ==
  /\ localCall # <<>>
  /\ localCall[1].failing = 1
  /\ Len(localCall[1].strategies) >= 4
  /\ localCall[1].merged # <<>>
  /\ localCall[1].merged # MergedResults(fuse, localCall[1].cleanQuery,
                                         VariantLimit(localCall[1].limit), clock)

(***************************************************************************)
(* The cap of history items per domain in an index generation              *)
(***************************************************************************)

HistoryDocuments(docs) == SelectSeq(docs, LAMBDA d : d.type = "history")

\* the history documents of a generation that belong to one domain
DocumentsOfDomain(docs, domain) ==
  { i \in Positions(docs) : docs[i].type = "history" /\ extractMainDomain(docs[i].url) = domain }

\* the items of chrome.history's answer that getHistory filters in, by domain
ItemsOfDomain(historyItems, domain) ==
  { i \in Positions(historyItems) :
      HasUrlAndTitle(historyItems[i]) /\ extractMainDomain(historyItems[i].url) = domain }

HistoryDomains(historyItems) ==
  { extractMainDomain(historyItems[i].url) : i \in Positions(historyItems) }

Kept(docs, item) ==
  \E i \in Positions(docs) :
    /\ docs[i].type = "history"
    /\ docs[i].url = item.url
    /\ docs[i].lastVisitTime = item.lastVisitTime

\* the generation built from historyItems holds, of every domain, all its
\* items or MAX_PER_DOMAIN of them, and no dropped item was visited after a
\* kept one
KeepsMostRecent(docs, historyItems) ==
  \A domain \in HistoryDomains(historyItems) :
    LET items == ItemsOfDomain(historyItems, domain) IN
    /\ Cardinality(DocumentsOfDomain(docs, domain)) = Min(Cardinality(items), MAX_PER_DOMAIN)
    /\ \A i, j \in items :
         Kept(docs, historyItems[i]) /\ ~Kept(docs, historyItems[j])
           => historyItems[i].lastVisitTime >= historyItems[j].lastVisitTime

AtMostKPerDomain ==
  \A i \in Positions(documents) :
    documents[i].type = "history"
      => Cardinality(DocumentsOfDomain(documents, extractMainDomain(documents[i].url)))
           <= MAX_PER_DOMAIN

\* C31: every index generation holds at most K = 3 history documents of one
\* registrable domain, and a generation built from a history answer with
\* more than K items of a domain holds the K most recently visited of them.
C31_AtMostKMostRecentPerDomain ==
  /\ AtMostKPerDomain
  /\ \A snapshot \in BuildSnapshots :
       documents = BuildDocuments(snapshot.bookmarks, snapshot.tabs, snapshot.history)
         => KeepsMostRecent(documents, snapshot.history)

\* a generation built from four visits of h.co.uk answered with the most
\* recent one last: it holds the visits of 995, 990 and 900, not the one of 500
C31_Witness ==
  /\ lastBuild # <<>> /\ lastBuild[1].outcome = "resolved"
  /\ LET h == HistoryDocuments(documents) IN
     /\ Len(h) = MAX_PER_DOMAIN
     /\ { h[i].lastVisitTime : i \in 1..Len(h) } = {995, 990, 900}
     /\ \A i \in 1..Len(h) : extractMainDomain(h[i].url) = <<"h", ".", "c", "o", ".", "u", "k">>

(***************************************************************************)
(* The cap per domain among the results of one searchLocal call            *)
(***************************************************************************)

CappedTypes == { "history", "bookmark" }

\* the candidates of a call that deduplicateResults left out
Dropped(call) ==
  { i \in 1..Len(call.merged) :
      \A k \in 1..Len(call.unique) : call.unique[k].id # call.merged[i].id }

\* the results deduplicateResults kept of one type and domain
KeptOfDomain(call, type, domain) ==
  { k \in 1..Len(call.unique) :
      call.unique[k].type = type /\ extractMainDomain(call.unique[k].url) = domain }

CapOf(type) == IF type = "history" THEN HISTORY_MAX_PER_DOMAIN ELSE BOOKMARK_MAX_PER_DOMAIN

\* C32: a candidate of type history or bookmark is left out only when its
\* domain has reached the cap of its type, and no candidate left out has a
\* higher score than a kept result of the same type and domain.
C32_CapKeepsHighestScored ==
  localCall # <<>> =>
    LET call == localCall[1] IN
    \A i \in Dropped(call) :
      LET c == call.merged[i]
          kept == KeptOfDomain(call, c.type, extractMainDomain(c.url))
      IN /\ c.type \in CappedTypes
         /\ Cardinality(kept) = CapOf(c.type)
         /\ \A k \in kept : c.score <= call.unique[k].score

\* a call in which the cap left out a candidate that the merged map holds
\* before a kept result of its type and domain with a higher score
C32_Witness ==
  /\ localCall # <<>>
  /\ \E i \in Dropped(localCall[1]) :
       \E j \in 1..Len(localCall[1].merged) :
         /\ i < j
         /\ localCall[1].merged[j].type = localCall[1].merged[i].type
         /\ extractMainDomain(localCall[1].merged[j].url)
              = extractMainDomain(localCall[1].merged[i].url)
         /\ j \notin Dropped(localCall[1])
         /\ localCall[1].merged[j].score > localCall[1].merged[i].score

(***************************************************************************)
(* A valid query is searched and delivered                                 *)
(***************************************************************************)

\* performSearch passes the query on (useSearch.ts 112-133)
ValidQuery(q) == trim(q) # <<>> /\ Len(q) >= minQueryLength

\* something in the stream will bring a value for q to the hook's callback:
\* the debounce timer holds q, the search of the current query q has not
\* returned, or a value for q waits in a setTimeout(..., 0)
UnderWay(q) ==
  \/ debounced = <<q>>
  \/ /\ searchSequence \in 1..Len(inner)
     /\ inner[searchSequence].status = "waiting"
     /\ currentQuery = q
  \/ \E i \in 1..Len(timers) : timers[i].query = q

\* C33: a call of performSearch with a valid query outside a composition
\* leaves a search for that query under way (so that, with no more typing,
\* its result is delivered and loading returns to false), also when the
\* query was searched before.
C33_ValidQueryUnderWay ==
  [][\A q \in TypedQueries :
       (PerformSearch(q) /\ ~isComposing /\ ValidQuery(q))
         => (loading' /\ UnderWay(q)')]_vars

(***************************************************************************)
(* Overlapping rebuilds                                                    *)
(***************************************************************************)

\* the calls in builds are in the order in which they began; the first
\* staleBuilds of them began before a call that has already written its index.
\* A buildIndex call whose fetches are answered, with the order of the calls
\* observed
RebuildComplete(i, snapshot) ==
  /\ Built(i, snapshot)
  /\ staleBuilds' = IF i <= staleBuilds THEN staleBuilds - 1 ELSE i - 1

RebuildFail(i) ==
  /\ Failed(i)
  /\ staleBuilds' = IF i <= staleBuilds THEN staleBuilds - 1 ELSE staleBuilds

\* what the fetches of overlapping calls answer
OverlapSnapshots ==
  Snapshots \cup DomainSnapshots \cup { s \in IdSnapshots : s.history = <<>> }

NextOverlap ==
  \/ Initialize
  \/ BookmarkCreated
  \/ IntervalTick
  \/ \E i \in 1..MaxBuilds, snapshot \in OverlapSnapshots : RebuildComplete(i, snapshot)
  \/ \E i \in 1..MaxBuilds : RebuildFail(i)

SpecOverlap == Init /\ [][NextOverlap]_vars

\* C34: when buildIndex calls overlap, a call that began before one that has
\* already written its index does not write its own afterwards, so that the
\* generation in place when all have returned is the one of the call that
\* began last.
C34_LastStartedRebuildWins ==
  [][staleBuilds' < staleBuilds
       => (documents' = documents /\ lastBuild'[1].outcome = "rejected")]_vars

(***************************************************************************)
(* searchBookmarksAndTabs: the limit of the caller                         *)
(***************************************************************************)

\* SearchEngine.search as one call: the outcomes it can return with, given
\* the answer of the suggestion service
EngineSearch(query, limit, response) ==
  IF RejectedQuery(query) THEN { [threw |-> FALSE, results |-> <<>>] }
  ELSE LET cleanQuery == trim(query)
           googleSuggestions == getGoogleSuggestions(cleanQuery, response)
           locals == searchLocal(isInitialized, fuse, cleanQuery, limit, clock)
       IN IF PushThrows(googleSuggestions, cleanQuery)
          THEN { SearchCatch(fallback) : fallback \in locals }
          ELSE { [threw |-> FALSE,
                  results |-> MergeWithSuggestions(local, googleSuggestions, cleanQuery, limit)] :
                   local \in locals }

\* SearchManager.handleSearchRequest: this.searchEngine.search(request.query),
\* the limit of the request is not passed on
handleSearchRequest(request, response) ==
  EngineSearch(request.query, DEFAULT_LIMIT, response)

COMPONENT_LIMIT == 20

\* searchBookmarksAndTabs(query, limit), from the call to the settling of its
\* promise
SearchBookmarksAndTabs(query, limit, response) ==
  /\ apiCall = <<>>
  /\ IF trim(query) = <<>>
     THEN apiCall' = << [query |-> query, limit |-> limit, sent |-> FALSE,
                         settled |-> "resolved", results |-> <<>>] >>
     ELSE \E outcome \in handleSearchRequest([query |-> trim(query), limit |-> limit], response) :
            apiCall' = << [query |-> query, limit |-> limit, sent |-> TRUE,
                           settled |-> IF outcome.threw THEN "rejected" ELSE "resolved",
                           results |-> outcome.results] >>
  /\ UNCHANGED <<serviceVars, sessionVars, storageVars>>
  /\ UNCHANGED <<clock, previousSearch, domainCall, localCall, lastTabUpdate, visitBurst,
                 debounceVars, dialogVars, analyticsVars>>

ApiQueries == { Q_EMPTY, Q_BLANK, Q_ONE, Q_AB, Q_AB_PADDED, Q_TWO_WORDS }
ApiLimits == { 1, 2, COMPONENT_LIMIT, DEFAULT_LIMIT }

NextApi ==
  \E q \in ApiQueries, limit \in ApiLimits, response \in Responses :
    SearchBookmarksAndTabs(q, limit, response)

SpecApi == InitVariants /\ [][NextApi]_vars

\* C35: the list searchBookmarksAndTabs(query, limit) resolves with has at
\* most limit entries.
C35_ResolvedWithinLimit ==
  (apiCall # <<>> /\ apiCall[1].settled = "resolved")
    => Len(apiCall[1].results) <= apiCall[1].limit

(***************************************************************************)
(* createDebouncedSearch                                                   *)
(***************************************************************************)

MaxPromises == 3      \* calls made on one debounced search function

\* the queries SearchComponent.performSearch and App pass on
DebouncedQueries == { Q_AB, Q_TWO_WORDS }

\* clearTimeout(timeoutId): the callback of the timer armed by the previous
\* call, if it has not run, never runs
ClearTimeout(calls) ==
  [k \in 1..Len(calls) |->
     IF calls[k].status = "timer" THEN [calls[k] EXCEPT !.status = "cleared"] ELSE calls[k]]

\* the function createDebouncedSearch returns, called with a query: the
\* pending timer is cleared, a new timer armed, a new promise returned
DebouncedSearch(query) ==
  /\ Len(promises) < MaxPromises
  /\ promises' = Append(ClearTimeout(promises), [query |-> query, status |-> "timer"])
  /\ UNCHANGED <<settleOrder, apiCall, dialogVars, analyticsVars>>
  /\ UNCHANGED <<serviceVars, sessionVars, storageVars>>
  /\ UNCHANGED <<clock, previousSearch, domainCall, localCall, lastTabUpdate, visitBurst>>

\* the timer callback: the search is sent
DebouncedTimerFire(k) ==
  /\ k \in 1..Len(promises)
  /\ promises[k].status = "timer"
  /\ promises' = [promises EXCEPT ![k].status = "searching"]
  /\ UNCHANGED <<settleOrder, apiCall, dialogVars, analyticsVars>>
  /\ UNCHANGED <<serviceVars, sessionVars, storageVars>>
  /\ UNCHANGED <<clock, previousSearch, domainCall, localCall, lastTabUpdate, visitBurst>>

\* the search of call k returns or throws: resolve(results) or reject(error)
DebouncedSearchSettle(k, ok) ==
  /\ k \in 1..Len(promises)
  /\ promises[k].status = "searching"
  /\ promises' = [promises EXCEPT ![k].status = IF ok THEN "resolved" ELSE "rejected"]
  /\ settleOrder' = Append(settleOrder, k)
  /\ UNCHANGED <<apiCall, dialogVars, analyticsVars>>
  /\ UNCHANGED <<serviceVars, sessionVars, storageVars>>
  /\ UNCHANGED <<clock, previousSearch, domainCall, localCall, lastTabUpdate, visitBurst>>

NextDebounced ==
  \/ \E q \in DebouncedQueries : DebouncedSearch(q)
  \/ \E k \in 1..MaxPromises : DebouncedTimerFire(k)
  \/ \E k \in 1..MaxPromises, ok \in BOOLEAN : DebouncedSearchSettle(k, ok)

\* timers fire and the background answers every message
SpecDebounced ==
  /\ Init
  /\ [][NextDebounced]_vars
  /\ \A k \in 1..MaxPromises :
       /\ WF_vars(DebouncedTimerFire(k))
       /\ WF_vars(\E ok \in BOOLEAN : DebouncedSearchSettle(k, ok))

PromiseSettled(k) ==
  k \in 1..Len(promises) /\ promises[k].status \in { "resolved", "rejected" }

\* C36: every promise the debounced search function has returned eventually
\* settles, also when another call follows before its delay has elapsed, and
\* promises that resolve do so in the order of their calls.
C36_PromisesSettleInOrder ==
  /\ \A k \in 1..MaxPromises : (k \in 1..Len(promises)) ~> PromiseSettled(k)
  /\ [](\A i, j \in 1..Len(settleOrder) :
          (i < j /\ promises[settleOrder[i]].status = "resolved"
                 /\ promises[settleOrder[j]].status = "resolved")
            => settleOrder[i] < settleOrder[j])

(***************************************************************************)
(* A search that fails                                                     *)
(***************************************************************************)

\* a session without compositions: queries are typed, promoted, searched and
\* delivered, and any search may reject
StreamQueries == { Q_ONE, Q_AB, Q_TWO_WORDS, Q_PREFIX }

NextStream ==
  \/ \E q \in StreamQueries : PerformSearch(q)
  \/ DebounceElapsed
  \/ \E sequence \in 1..MaxSeq, ok \in BOOLEAN : SearchSettle(sequence, ok)
  \/ TimerFire

SpecStream == InitSession /\ [][NextStream]_vars

\* the value the stream emits for a search that rejected
ErrorValue(call) ==
  [query |-> currentQuery, sequence |-> searchSequence, kind |-> "error", of |-> call.query]

ErrorShown == shownResults # NoResults /\ shownResults[1].kind = "error"

\* when the search of the promoted query rejects, the stream emits an empty
\* list for the current query and sequence number and does not end: a query
\* promoted afterwards is searched and its result is delivered
FailedSearchKeepsStream ==
  /\ [](mounted => streamAlive)
  /\ [][\A sequence \in 1..MaxSeq :
          (SearchSettle(sequence, FALSE) /\ sequence = searchSequence)
            => timers' = IF latestQueryRef = currentQuery
                         THEN Append(timers, ErrorValue(inner[sequence]))
                         ELSE timers]_vars
  /\ [][(ErrorShown /\ Promoted)
          => /\ searchSequence' = searchSequence + 1
             /\ inner'[searchSequence'] = [query |-> debounced[1], status |-> "waiting"]]_vars
  /\ [][(ErrorShown /\ TimerFire /\ latestQueryRef = Head(timers).query)
          => (shownResults' = << Head(timers) >> /\ ~loading')]_vars

\* C37: a failed search does not end the stream: it emits an empty list for
\* the current query and sequence number, and every valid query submitted
\* while that list is shown is searched and delivered.
C37_LaterQueriesSearched ==
  /\ FailedSearchKeepsStream
  /\ [][\A q \in StreamQueries :
          (ErrorShown /\ inputValue # q /\ PerformSearch(q) /\ ValidQuery(q))
            => UnderWay(q)']_vars

(***************************************************************************)
(* DialogStateManager                                                      *)
(***************************************************************************)

MaxDialogCalls == 4   \* calls made on one dialog state manager

DialogIds == { "ctrlk", "help", "chat" }
TabIds == { UNDEFINED, "7" }

\* the state of the manager during a call: the Map entries and the events
\* emitted so far
Manager(states, events) == [states |-> states, events |-> events]

EntryOf(states, dialogId) ==
  { i \in 1..Len(states) : states[i].dialogId = dialogId }

\* DialogStateManager.isDialogOpen: getDialogState(dialogId)?.isOpen ?? false
isDialogOpen(states, dialogId) ==
  \E i \in EntryOf(states, dialogId) : states[i].isOpen

\* Map.set: an existing key keeps its place, a new key goes last
DialogMapSet(states, state) ==
  IF EntryOf(states, state.dialogId) = {}
  THEN Append(states, state)
  ELSE [i \in 1..Len(states) |->
          IF states[i].dialogId = state.dialogId THEN state ELSE states[i]]

\* DialogStateManager.updateDialogState
updateDialogState(m, dialogId, isOpen, tabId, now) ==
  Manager(DialogMapSet(m.states, [dialogId |-> dialogId, isOpen |-> isOpen,
                                  tabId |-> tabId, timestamp |-> now]),
          m.events)

\* the loop of closeAllDialogs over the entries from position i on
RECURSIVE CloseOthers(_, _, _, _)
CloseOthers(m, i, excludeDialogId, now) ==
  IF i > Len(m.states) THEN m
  ELSE LET state == m.states[i] IN
       IF state.dialogId # excludeDialogId /\ state.isOpen
       THEN CloseOthers(
              Manager([m.states EXCEPT ![i] = [state EXCEPT !.isOpen = FALSE,
                                                            !.timestamp = now]],
                      Append(m.events, [type |-> "CLOSE", dialogId |-> state.dialogId,
                                        tabId |-> UNDEFINED, force |-> TRUE])),
              i + 1, excludeDialogId, now)
       ELSE CloseOthers(m, i + 1, excludeDialogId, now)

\* an openDialog that leaves the other dialogs as they are
closeAllDialogsSkipped(m, excludeDialogId, now) == m

\* DialogStateManager.closeAllDialogs
closeAllDialogs(m, excludeDialogId, now) == CloseOthers(m, 1, excludeDialogId, now)

\* DialogStateManager.openDialog
openDialog(m, dialogId, tabId, force, now) ==
  IF ~force /\ isDialogOpen(m.states, dialogId) THEN m
  ELSE LET closed == closeAllDialogs(m, dialogId, now)
           updated == updateDialogState(closed, dialogId, TRUE, tabId, now)
       IN Manager(updated.states,
                  Append(updated.events, [type |-> "OPEN", dialogId |-> dialogId,
                                          tabId |-> tabId, force |-> force]))

\* DialogStateManager.closeDialog
closeDialog(m, dialogId, tabId, force, now) ==
  IF ~force /\ ~isDialogOpen(m.states, dialogId) THEN m
  ELSE LET updated == updateDialogState(m, dialogId, FALSE, tabId, now)
       IN Manager(updated.states,
                  Append(updated.events, [type |-> "CLOSE", dialogId |-> dialogId,
                                          tabId |-> tabId, force |-> force]))

\* DialogStateManager.toggleDialog
toggleDialog(m, dialogId, tabId, now) ==
  LET toggled == IF isDialogOpen(m.states, dialogId)
                 THEN closeDialog(m, dialogId, tabId, FALSE, now)
                 ELSE openDialog(m, dialogId, tabId, FALSE, now)
  IN Manager(toggled.states,
             Append(toggled.events, [type |-> "TOGGLE", dialogId |-> dialogId,
                                     tabId |-> tabId]))

\* one call on the manager: time has passed since the call before
DialogCall(after) ==
  /\ dialogNow < MaxDialogCalls
  /\ dialogNow' = dialogNow + 1
  /\ dialogStates' = after.states
  /\ stateEvents' = after.events
  /\ UNCHANGED <<apiCall, debounceVars, analyticsVars>>
  /\ UNCHANGED <<serviceVars, sessionVars, storageVars>>
  /\ UNCHANGED <<clock, previousSearch, domainCall, localCall, lastTabUpdate, visitBurst>>

OpenDialog(dialogId, tabId, force) ==
  DialogCall(openDialog(Manager(dialogStates, <<>>), dialogId, tabId, force, dialogNow + 1))

CloseDialog(dialogId, tabId, force) ==
  DialogCall(closeDialog(Manager(dialogStates, <<>>), dialogId, tabId, force, dialogNow + 1))

ToggleDialog(dialogId, tabId) ==
  DialogCall(toggleDialog(Manager(dialogStates, <<>>), dialogId, tabId, dialogNow + 1))

CloseAllDialogs(excludeDialogId) ==
  DialogCall(closeAllDialogs(Manager(dialogStates, <<>>), excludeDialogId, dialogNow + 1))

NextDialogs ==
  \/ \E dialogId \in DialogIds, tabId \in TabIds, force \in BOOLEAN :
       OpenDialog(dialogId, tabId, force)
  \/ \E dialogId \in DialogIds, tabId \in TabIds, force \in BOOLEAN :
       CloseDialog(dialogId, tabId, force)
  \/ \E dialogId \in DialogIds, tabId \in TabIds : ToggleDialog(dialogId, tabId)
  \/ \E excludeDialogId \in DialogIds \cup { UNDEFINED } : CloseAllDialogs(excludeDialogId)

SpecDialogs == Init /\ [][NextDialogs]_vars

OpenDialogs == { i \in 1..Len(dialogStates) : dialogStates[i].isOpen }

\* C38: after any sequence of openDialog, closeDialog, toggleDialog and
\* closeAllDialogs calls at most one dialog is open; openDialog without force
\* on an open dialog and closeDialog without force on a closed one change no
\* state and emit no event.
C38_AtMostOneDialogOpen ==
  /\ [](Cardinality(OpenDialogs) <= 1)
  /\ [][\A dialogId \in DialogIds, tabId \in TabIds :
          /\ (OpenDialog(dialogId, tabId, FALSE) /\ isDialogOpen(dialogStates, dialogId))
               => (dialogStates' = dialogStates /\ stateEvents' = <<>>)
          /\ (CloseDialog(dialogId, tabId, FALSE) /\ ~isDialogOpen(dialogStates, dialogId))
               => (dialogStates' = dialogStates /\ stateEvents' = <<>>)]_vars

\* openDialog("help") while "ctrlk" was open has closed "ctrlk" and emitted
\* its CLOSE event before the OPEN event
C38_Witness ==
  /\ Len(dialogStates) >= 2
  /\ \E i, j \in 1..Len(dialogStates) :
       /\ dialogStates[i].dialogId = "ctrlk" /\ ~dialogStates[i].isOpen
       /\ dialogStates[j].dialogId = "help" /\ dialogStates[j].isOpen
       /\ dialogStates[i].timestamp = dialogStates[j].timestamp
       /\ dialogStates[i].timestamp > 1
  /\ Len(stateEvents) = 2
  /\ stateEvents[1].type = "CLOSE" /\ stateEvents[1].dialogId = "ctrlk"
  /\ stateEvents[2].type = "OPEN"

(***************************************************************************)
(* TabAnalytics (storage/analytics/tab-analytics.ts): the tracked tabs,    *)
(* the recordVisit calls and the two stores they read and write.           *)
(*                                                                         *)
(* recordVisit is async and none of its callers awaits it, so the calls of *)
(* one pass run interleaved: each call runs until its next await and then  *)
(* waits in the microtask queue behind the calls that reached an await     *)
(* before it.  statsStorage.get() and visitsStorage.get() hand out the     *)
(* object RxStorage holds (cache entry or default value), not a copy, so   *)
(* one object per store is shared by all the calls.  The model covers the  *)
(* stores answering from that object at once (RxStorage.get with a valid   *)
(* cache entry): every await is then a microtask, and the queue is drained *)
(* before the next browser event is handled.                               *)
(***************************************************************************)

MaxRecordings == 4
MIN_DURATION_TO_RECORD == 3000
MAX_VISITS_STORED == 10000

AnalyticsTabs == { 1, 2 }
AnalyticsUrls == { [host |-> <<"www", "a", "com">>, path |-> "/1"], [host |-> <<"a", "com">>, path |-> "/2"], [host |-> <<"b", "org">>, path |-> "/"] }
Durations == { 1000, 3000, 5000 }

\* urlObj.hostname.replace(/^www\./, '')
extractDomain(url) == IF Len(url.host) > 0 /\ Head(url.host) = "www" THEN Tail(url.host) ELSE url.host

AnalyticsDomains == { extractDomain(url) : url \in AnalyticsUrls }

\* the position of a key in a Map or object kept in insertion order, 0 if absent
KeyIndex(entries, field, key) == IF \E i \in 1..Len(entries) : entries[i][field] = key THEN CHOOSE i \in 1..Len(entries) : entries[i][field] = key ELSE 0

\* this.activeTabsMap.set(tab.id, activeTab)
startTabTracking(tabs, tabId, url) == LET at == KeyIndex(tabs, "tabId", tabId) entry == [tabId |-> tabId, url |-> url, domain |-> extractDomain(url)] IN IF at = 0 THEN Append(tabs, entry) ELSE [tabs EXCEPT ![at] = entry]

\* recordVisit up to its first await: the visit is built and saveVisit waits
\* for visitsStorage.get()
recordVisit(calls, activeTab, duration) == Append(calls, [domain |-> activeTab.domain, duration |-> duration, at |-> "saveVisit", newVisitCount |-> 0, newTotalDuration |-> 0, recentVisits |-> 0])

\* activeTabsMap.forEach of pauseAllTabs and destroy: one recordVisit call per
\* tab tracked long enough, in the order of the Map
RECURSIVE recordTabs(_, _, _)
recordTabs(calls, tabs, durations) == IF tabs = <<>> THEN calls ELSE recordTabs(IF durations[Head(tabs).tabId] >= MIN_DURATION_TO_RECORD THEN recordVisit(calls, Head(tabs), durations[Head(tabs).tabId]) ELSE calls, Tail(tabs), durations)

\* the calls appended to the microtask queue by a handler
Started(before, after) == [i \in 1..(Len(after) - Len(before)) |-> Len(before) + i]

\* stopTabTracking: the visit is recorded if long enough, the tab forgotten
stopTabTracking(calls, tabs, tabId, duration) == LET at == KeyIndex(tabs, "tabId", tabId) IN IF at = 0 THEN [calls |-> calls, tabs |-> tabs] ELSE [calls |-> IF duration >= MIN_DURATION_TO_RECORD THEN recordVisit(calls, tabs[at], duration) ELSE calls, tabs |-> RemoveAt(tabs, at)]

\* the handler ran after the calls of earlier events had finished, left the
\* stores alone and queued the calls it started
AnalyticsHandled(calls, tabs) ==
  /\ microtasks = <<>>
  /\ Len(calls) <= MaxRecordings
  /\ visitCalls' = calls
  /\ activeTabsMap' = tabs
  /\ microtasks' = microtasks \o Started(visitCalls, calls)
  /\ UNCHANGED <<statsData, visitsData>>
  /\ UNCHANGED <<serviceVars, sessionVars, storageVars>>
  /\ UNCHANGED <<clock, previousSearch, domainCall, localCall, lastTabUpdate, visitBurst, apiCall, debounceVars, dialogVars>>

\* chrome.tabs.onUpdated with status complete: a tab that changed its URL is
\* stopped and started again, a new tab is started, otherwise only title and
\* icon are refreshed
HandleTabUpdated(tabId, url, duration) ==
  LET at == KeyIndex(activeTabsMap, "tabId", tabId)
      stopped == stopTabTracking(visitCalls, activeTabsMap, tabId, duration)
  IN  IF at # 0 /\ activeTabsMap[at].url # url
        THEN AnalyticsHandled(stopped.calls, startTabTracking(stopped.tabs, tabId, url))
        ELSE /\ at = 0
             /\ AnalyticsHandled(visitCalls, startTabTracking(activeTabsMap, tabId, url))

\* chrome.tabs.onRemoved
HandleTabRemoved(tabId, duration) ==
  LET stopped == stopTabTracking(visitCalls, activeTabsMap, tabId, duration)
  IN  /\ KeyIndex(activeTabsMap, "tabId", tabId) # 0
      /\ AnalyticsHandled(stopped.calls, stopped.tabs)

\* the window lost focus, or another tab was activated
PauseAllTabs(durations) ==
  /\ activeTabsMap # <<>>
  /\ AnalyticsHandled(recordTabs(visitCalls, activeTabsMap, durations), activeTabsMap)

\* destroy(): the same pass, then activeTabsMap.clear()
DestroyAnalytics(durations) ==
  /\ activeTabsMap # <<>>
  /\ AnalyticsHandled(recordTabs(visitCalls, activeTabsMap, durations), <<>>)

\* visits.unshift(visit), the splice at MAX_VISITS_STORED, visitsStorage.set
saveVisit(visits, call) == Take(<<[domain |-> call.domain, duration |-> call.duration]>> \o visits, MAX_VISITS_STORED)

\* visits.filter(visit => visit.domain === domain && ...).length; every visit
\* of the model is younger than seven days
countRecentVisits(visits, domain) == Cardinality({ i \in 1..Len(visits) : visits[i].domain = domain })

\* updateWebsiteStats from the answer of statsStorage.get() to its next
\* await: for a known domain the new count and total are computed from the
\* entry read now
ReadStats(stats, call) == LET at == KeyIndex(stats, "domain", call.domain) IN [call EXCEPT !.newVisitCount = stats[at].visitCount + 1, !.newTotalDuration = stats[at].totalDuration + call.duration, !.at = "countRecentVisits"]

\* allStats[visit.domain] = newStats for a domain without an entry
CreateStats(stats, call) == Append(stats, [domain |-> call.domain, visitCount |-> 1, totalDuration |-> call.duration, recentVisits |-> 1])

\* allStats[visit.domain] = newStats for a known domain, with the count and
\* total computed before the await of countRecentVisits
WriteStats(stats, call) == LET at == KeyIndex(stats, "domain", call.domain) entry == [domain |-> call.domain, visitCount |-> call.newVisitCount, totalDuration |-> call.newTotalDuration, recentVisits |-> call.recentVisits] IN IF at = 0 THEN Append(stats, entry) ELSE [stats EXCEPT ![at] = entry]

\* the call at the head of the microtask queue runs to its next await
RecordVisitStep ==
  /\ microtasks # <<>>
  /\ LET k == Head(microtasks)
         call == visitCalls[k]
         known == KeyIndex(statsData, "domain", call.domain) # 0
         next == CASE call.at = "saveVisit" -> [call EXCEPT !.at = "recordVisit"]
                   [] call.at = "recordVisit" -> [call EXCEPT !.at = "updateWebsiteStats"]
                   [] call.at = "updateWebsiteStats" -> IF known THEN ReadStats(statsData, call) ELSE [call EXCEPT !.at = "done"]
                   [] call.at = "countRecentVisits" -> [call EXCEPT !.recentVisits = countRecentVisits(visitsData, call.domain), !.at = "newStats"]
                   [] call.at = "newStats" -> [call EXCEPT !.at = "done"]
     IN  /\ visitCalls' = [visitCalls EXCEPT ![k] = next]
         /\ microtasks' = IF next.at = "done" THEN Tail(microtasks) ELSE Append(Tail(microtasks), k)
         /\ visitsData' = IF call.at = "saveVisit" THEN saveVisit(visitsData, call) ELSE visitsData
         /\ statsData' = CASE call.at = "updateWebsiteStats" /\ ~known -> CreateStats(statsData, call)
                           [] call.at = "newStats" -> WriteStats(statsData, call)
                           [] OTHER -> statsData
  /\ UNCHANGED activeTabsMap
  /\ UNCHANGED <<serviceVars, sessionVars, storageVars>>
  /\ UNCHANGED <<clock, previousSearch, domainCall, localCall, lastTabUpdate, visitBurst, apiCall, debounceVars, dialogVars>>

NextAnalytics ==
  \/ \E tabId \in AnalyticsTabs, url \in AnalyticsUrls, duration \in Durations : HandleTabUpdated(tabId, url, duration)
  \/ \E tabId \in AnalyticsTabs, duration \in Durations : HandleTabRemoved(tabId, duration)
  \/ \E durations \in [AnalyticsTabs -> Durations] : PauseAllTabs(durations)
  \/ \E durations \in [AnalyticsTabs -> Durations] : DestroyAnalytics(durations)
  \/ RecordVisitStep

SpecAnalytics == Init /\ [][NextAnalytics]_vars

RECURSIVE SumDurations(_, _)
SumDurations(calls, domain) == IF calls = <<>> THEN 0 ELSE (IF Head(calls).domain = domain THEN Head(calls).duration ELSE 0) + SumDurations(Tail(calls), domain)

\* the visits recorded for a domain, and what website_stats says of it
RecordedVisits(domain) == Cardinality({ k \in 1..Len(visitCalls) : visitCalls[k].domain = domain })
StoredStats(domain) == LET at == KeyIndex(statsData, "domain", domain) IN IF at = 0 THEN [visitCount |-> 0, totalDuration |-> 0] ELSE [visitCount |-> statsData[at].visitCount, totalDuration |-> statsData[at].totalDuration]

\* C39: once every recordVisit call has finished, the stored visitCount of
\* each domain is the number of visits recorded for it and its totalDuration
\* the sum of their durations, also for visits recorded in one pass.
\* TabAnalytics does not keep this: two calls of one pass for a known domain
\* both read the count before either writes.
C39_EveryVisitCounted ==
  microtasks = <<>> =>
    \A domain \in AnalyticsDomains :
      /\ StoredStats(domain).visitCount = RecordedVisits(domain)
      /\ StoredStats(domain).totalDuration = SumDurations(visitCalls, domain)

====
